---------------------------- MODULE Spec2Model ----------------------------
(***************************************************************************)
(* Model of the two in-memory reference providers of ts-auth:              *)
(*   AuthTesting         (session facade,                                  *)
(*                        src/src/frontend/providers/testing/              *)
(*                        auth-frontend.testing.ts)                        *)
(*   AuthBackendTesting  (administrative facade,                           *)
(*                        src/src/backend/providers/testing/               *)
(*                        auth-backend.testing.ts)                         *)
(* Each public method is one action.  The only method with an await point  *)
(* in its body, AuthTesting.changeEmail, is two steps: the part up to the  *)
(* await and the continuation.                                             *)
(***************************************************************************)
EXTENDS Integers, Sequences, FiniteSets, TLC

(***************************************************************************)
(* Bounds of the model.                                                    *)
(***************************************************************************)
\* accounts the session facade may create in one behaviour (fresh uids)
MaxUid == 3
\* observers of authState$
MaxSubs == 1
\* changeEmail calls suspended at their await at the same time
MaxPending == 1
\* uuidv4() values the administrative facade may draw in one behaviour: three
\* for each account it creates, one for each idToken a refresh mints
MaxUuid == 8
\* observers of onUserCreated$ / onUserDeleted$
MaxBackendSubs == 1
\* accounts created in one behaviour when both facades are driven together
MaxBothAccounts == 2
\* reset tokens triggerResetPasswordFlow may mint in one behaviour
MaxResetTokens == 2
\* accounts created in one behaviour that also runs the password reset
MaxResetAccounts == 2

(***************************************************************************)
(* Values.  An email is the sequence of its characters, so that the        *)
(* format check is computed and not assumed.                               *)
(***************************************************************************)
EmailA == <<"a", "@", "x", ".", "c">>
EmailB == <<"b", "@", "x", ".", "c">>
\* the tests' 'invalid-email': no '@' at all
EmailBad == <<"a", "-", "b">>
Emails == {EmailA, EmailB, EmailBad}
Passwords == {"pw1", "pw2"}
Whitespace == {" ", "\t", "\n"}

\* the cooldown of triggerResetPasswordFlow and the life of a reset token, ms
RateLimitMs == 60000
ExpiresMs == 3600000

\* the instants at which Date.now() is read: below the cooldown, at it, one and
\* two cooldowns later and around the expiry of a token minted at RateLimitMs
Times == {0, RateLimitMs - 1, RateLimitMs, 2 * RateLimitMs - 1, 2 * RateLimitMs,
          RateLimitMs + ExpiresMs, RateLimitMs + ExpiresMs + 1}

\* BehaviorSubject<BackendAuthUser | null | undefined>: uids are 1, 2, ...
Undefined == -1
Null == 0
NoToken == <<>>

VARIABLES
  users,        \* AuthTesting.users: Map email -> FakeUser, in insertion order
  currentUser,  \* AuthTesting.currentUser: Null or the uid
  authState,    \* the BehaviorSubject's current value
  idTokens,     \* AuthTesting.idTokens: Map uid -> token
  nextUid,      \* the next value Math.random() yields for a new uid
  passwordResetTokens,  \* AuthTesting.passwordResetTokens: Map token -> record
  rateLimitTracker,     \* AuthTesting.rateLimitTracker: Map email -> number
  nextResetToken,       \* the next value Math.random() yields for a reset token
  mintedFor,            \* history: for each reset token minted, the uid of the
                        \* account that owned the email when it was minted
  now,          \* Date.now()
  pending,      \* changeEmail calls suspended at their await, oldest first
  subscribed,   \* observers of authState$ currently subscribed
  published,    \* values passed to authState.next() by the last step
  delivered,    \* values each observer received in the last step
  ret,          \* the last call: method, arguments and outcome
  registeredUsers,  \* AuthBackendTesting.registeredUsers, an Array
  nextUuid,         \* the next value uuidv4() yields
  backSubscribed,   \* subscriptions <<kind, observer>> to onUserCreated$ and
                    \* onUserDeleted$
  backPublished,    \* events passed to a Subject's next() by the last step
  backEvents,       \* per observer, the events the last step handed to it
  backUnhandled,    \* <<observer, event>>: the handler calls of the last step
                    \* that raised; rxjs reports each from a timer
  issued            \* history: <<idToken, refreshToken, uid>> of every
                    \* successful sign-in of the administrative facade so
                    \* far, by password or by refresh token

vars == <<users, currentUser, authState, idTokens, nextUid, passwordResetTokens,
          rateLimitTracker, nextResetToken, mintedFor, now, pending,
          subscribed, published, delivered, ret,
          registeredUsers, nextUuid, backSubscribed, backPublished, backEvents,
          backUnhandled, issued>>

Subs == 1..MaxSubs
BackSubs == 1..MaxBackendSubs

\* the observers whose handler raises on every event it is handed
Raisers == {0}

BackObservers == BackSubs \cup Raisers

(***************************************************************************)
(* isValidEmail: /^[^\s@]+@[^\s@]+\.[^\s@]+$/                              *)
(***************************************************************************)
isValidEmail(email) ==
  \E i \in 1..Len(email), j \in 1..Len(email) :
    /\ email[i] = "@"
    /\ i > 1
    /\ j > i + 1
    /\ j < Len(email)
    /\ email[j] = "."
    /\ \A k \in (1..Len(email)) \ {i} : email[k] \notin (Whitespace \cup {"@"})

(***************************************************************************)
(* Map<string, FakeUser>, kept as the sequence of its values in insertion  *)
(* order; the key of a value is its email field.                           *)
(***************************************************************************)
MapHas(m, email) == \E i \in 1..Len(m) : m[i].email = email

MapIndex(m, email) == CHOOSE i \in 1..Len(m) : m[i].email = email

MapGet(m, email) == m[MapIndex(m, email)]

MapSet(m, email, user) ==
  IF MapHas(m, email)
    THEN [m EXCEPT ![MapIndex(m, email)] = user]
    ELSE Append(m, user)

MapDelete(m, email) ==
  LET keep(u) == u.email # email IN SelectSeq(m, keep)

\* the first entry, in iteration order, whose uid is the given one (0: none)
FirstWithUid(m, uid) ==
  IF \E i \in 1..Len(m) : m[i].uid = uid
    THEN CHOOSE i \in 1..Len(m) :
           m[i].uid = uid /\ \A k \in 1..(i - 1) : m[k].uid # uid
    ELSE 0

FakeUser(uid, email, password) ==
  [uid |-> uid, email |-> email, password |-> password]

\* Map<string, string> idTokens, as a function on the uids that have a token
TokenSet(t, uid, token) ==
  [u \in DOMAIN t \cup {uid} |-> IF u = uid THEN token ELSE t[u]]

TokenDelete(t, uid) == [u \in DOMAIN t \ {uid} |-> t[u]]

\* `fake-id-token-${user.uid}-${Date.now()}`
FakeIdToken(uid, at) == <<"fake-id-token-", uid, "-", at>>

Call(op, arg, res, uid, token) ==
  [op |-> op, arg |-> arg, res |-> res, uid |-> uid, token |-> token]

\* a call of authState.next that was forgotten
NextForgotten(v) ==
  /\ UNCHANGED authState
  /\ published' = <<>>
  /\ delivered' = [s \in Subs |-> <<>>]

\* authState.next(v): the subject keeps v and hands it to every observer
Next_(v) ==
  /\ authState' = v
  /\ published' = <<v>>
  /\ delivered' = [s \in Subs |-> IF s \in subscribed THEN <<v>> ELSE <<>>]

NoNext ==
  /\ published' = <<>>
  /\ delivered' = [s \in Subs |-> <<>>]

Init ==
  /\ users = <<>>
  /\ currentUser = Null
  /\ authState = Undefined
  /\ idTokens = <<>>
  /\ nextUid = 1
  /\ passwordResetTokens = <<>>
  /\ rateLimitTracker = <<>>
  /\ nextResetToken = 1
  /\ mintedFor = <<>>
  /\ now = 0
  /\ pending = <<>>
  /\ subscribed = {}
  /\ published = <<>>
  /\ delivered = [s \in Subs |-> <<>>]
  /\ ret = Call("constructor", <<>>, "ok", Null, NoToken)
  /\ registeredUsers = <<>>
  /\ nextUuid = 1
  /\ backSubscribed = {}
  /\ backPublished = <<>>
  /\ backEvents = [s \in BackObservers |-> <<>>]
  /\ backUnhandled = {}
  /\ issued = {}


(***************************************************************************)
(* AuthTesting, the session facade.                                        *)
(***************************************************************************)
backendUnchanged ==
  UNCHANGED <<registeredUsers, nextUuid, backSubscribed, backPublished,
              backEvents, backUnhandled, issued>>

\* what every method but the two of the password reset leaves alone
frontFrame ==
  /\ UNCHANGED <<passwordResetTokens, rateLimitTracker, nextResetToken,
                 mintedFor, now>>
  /\ backendUnchanged

\* authState$.subscribe(observer): a BehaviorSubject hands its current value
\* to the new observer at once
\* a subscription to a subject that keeps no current value
subscribeNoReplay(s) ==
  /\ s \notin subscribed
  /\ subscribed' = subscribed \cup {s}
  /\ NoNext
  /\ ret' = Call("subscribe", <<s>>, "ok", Null, NoToken)
  /\ UNCHANGED <<users, currentUser, authState, idTokens, nextUid, pending>>
  /\ frontFrame

subscribe(s) ==
  /\ s \notin subscribed
  /\ subscribed' = subscribed \cup {s}
  /\ published' = <<>>
  /\ delivered' = [x \in Subs |-> IF x = s THEN <<authState>> ELSE <<>>]
  /\ ret' = Call("subscribe", <<s>>, "ok", Null, NoToken)
  /\ UNCHANGED <<users, currentUser, authState, idTokens, nextUid, pending>>
  /\ frontFrame

unsubscribe(s) ==
  /\ s \in subscribed
  /\ subscribed' = subscribed \ {s}
  /\ NoNext
  /\ ret' = Call("unsubscribe", <<s>>, "ok", Null, NoToken)
  /\ UNCHANGED <<users, currentUser, authState, idTokens, nextUid, pending>>
  /\ frontFrame

\* addTestUser(email, password, uid?): uid 0 stands for an omitted uid
addTestUser(email, password, uid) ==
  /\ uid = 0 => nextUid <= MaxUid
  /\ LET userId == IF uid = 0 THEN nextUid ELSE uid IN
       /\ users' = MapSet(users, email, FakeUser(userId, email, password))
       /\ nextUid' = IF uid = 0 THEN nextUid + 1 ELSE nextUid
       /\ ret' = Call("addTestUser", <<email, password, uid>>, "ok", userId, NoToken)
  /\ NoNext
  /\ UNCHANGED <<currentUser, authState, idTokens, pending, subscribed>>
  /\ frontFrame

\* a sign-in that looks the account up before it checks the format
signInOutcomeLookupFirst(m, email, password) ==
  IF ~MapHas(m, email) THEN "user-not-found"
  ELSE IF MapGet(m, email).password # password THEN "wrong-password"
  ELSE IF ~isValidEmail(email) THEN "invalid-email"
  ELSE "ok"

\* the outcome of the three checks of signInWithEmailAndPassword
signInOutcome(m, email, password) ==
  IF ~isValidEmail(email) THEN "invalid-email"
  ELSE IF ~MapHas(m, email) THEN "user-not-found"
  ELSE IF MapGet(m, email).password # password THEN "wrong-password"
  ELSE "ok"

\* a failed sign-in that drops the session it found
signInFailedSignsOut(email, password, res) ==
  /\ currentUser' = Null
  /\ Next_(Null)
  /\ ret' = Call("signIn", <<email, password>>, res, Null, NoToken)
  /\ UNCHANGED idTokens

\* the three early returns of signInWithEmailAndPassword
signInFailed(email, password, res) ==
  /\ NoNext
  /\ ret' = Call("signIn", <<email, password>>, res, Null, NoToken)
  /\ UNCHANGED <<currentUser, authState, idTokens>>

\* a sign-in that publishes only when it changes the signed-in uid
signInWithEmailAndPasswordDistinct(email, password) ==
  LET res == signInOutcome(users, email, password) IN
    /\ IF res = "ok"
         THEN LET user == MapGet(users, email) IN
                /\ currentUser' = user.uid
                /\ IF authState \in {Undefined, user.uid}
                     THEN NoNext /\ UNCHANGED authState
                     ELSE Next_(user.uid)
                /\ idTokens' = TokenSet(idTokens, user.uid, FakeIdToken(user.uid, now))
                /\ ret' = Call("signIn", <<email, password>>, "ok", user.uid, NoToken)
         ELSE signInFailed(email, password, res)
    /\ UNCHANGED <<users, nextUid, pending, subscribed>>
    /\ frontFrame

signInWithEmailAndPassword(email, password) ==
  LET res == signInOutcome(users, email, password) IN
    /\ IF res = "ok"
         THEN LET user == MapGet(users, email) IN
                /\ currentUser' = user.uid
                /\ Next_(user.uid)
                /\ idTokens' = TokenSet(idTokens, user.uid, FakeIdToken(user.uid, now))
                /\ ret' = Call("signIn", <<email, password>>, "ok", user.uid, NoToken)
         ELSE signInFailed(email, password, res)
    /\ UNCHANGED <<users, nextUid, pending, subscribed>>
    /\ frontFrame

\* a getIdToken that hands out whatever the store holds for the last user
getIdTokenOutcomeUnchecked(cur, tokens) ==
  IF cur \in DOMAIN tokens THEN <<"ok", tokens[cur]>> ELSE <<"ok", NoToken>>

\* what getIdToken does: <<"throw", NoToken>> or <<"ok", token>>
getIdTokenOutcome(cur, tokens) ==
  IF cur = Null THEN <<"throw", NoToken>>
  ELSE IF cur \notin DOMAIN tokens THEN <<"throw", NoToken>>
  ELSE <<"ok", tokens[cur]>>

getIdToken ==
  /\ LET out == getIdTokenOutcome(currentUser, idTokens) IN
       ret' = Call("getIdToken", <<>>, out[1], currentUser, out[2])
  /\ NoNext
  /\ UNCHANGED <<users, currentUser, authState, idTokens, nextUid, pending, subscribed>>
  /\ frontFrame

\* a signOut that leaves the token in the store
signOutTokensKept(cur, tokens) == tokens

\* the token store signOut leaves
signOutTokens(cur, tokens) ==
  IF cur # Null THEN TokenDelete(tokens, cur) ELSE tokens

\* a signOut that deletes the token and forgets to end the session
signOutKeepsSession ==
  /\ idTokens' = signOutTokens(currentUser, idTokens)
  /\ NoNext
  /\ ret' = Call("signOut", <<>>, "ok", Null, NoToken)
  /\ UNCHANGED <<users, nextUid, pending, subscribed, currentUser, authState>>
  /\ frontFrame

signOut ==
  /\ idTokens' = signOutTokens(currentUser, idTokens)
  /\ currentUser' = Null
  /\ Next_(Null)
  /\ ret' = Call("signOut", <<>>, "ok", Null, NoToken)
  /\ UNCHANGED <<users, nextUid, pending, subscribed>>
  /\ frontFrame

\* an isEmailAvailable that takes the caller's own email for a free one
isEmailAvailableToOwner(email) ==
  /\ ret' = Call("isEmailAvailable", <<email>>,
                 IF MapHas(users, email) /\ MapGet(users, email).uid # currentUser
                   THEN "false" ELSE "true", Null, NoToken)
  /\ NoNext
  /\ UNCHANGED <<users, currentUser, authState, idTokens, nextUid, pending, subscribed>>
  /\ frontFrame

isEmailAvailable(email) ==
  /\ ret' = Call("isEmailAvailable", <<email>>,
                 IF MapHas(users, email) THEN "false" ELSE "true", Null, NoToken)
  /\ NoNext
  /\ UNCHANGED <<users, currentUser, authState, idTokens, nextUid, pending, subscribed>>
  /\ frontFrame


\* a changeEmail that sets the account under the new email and leaves the
\* entry under the old one
changeEmailUsersCopy(m, uid, email) ==
  LET i == FirstWithUid(m, uid) IN
    IF i = 0 THEN m
    ELSE MapSet(m, email, [m[i] EXCEPT !.email = email])

\* the loop of changeEmail: the first account whose uid is the signed-in one
\* is deleted under its old email and set under the new one
changeEmailUsers(m, uid, email) ==
  LET i == FirstWithUid(m, uid) IN
    IF i = 0 THEN m
    ELSE MapSet(MapDelete(m, m[i].email), email, [m[i] EXCEPT !.email = email])

\* a changeEmail that takes the caller's own email for an available one
changeEmailCallOwnAllowed(m, email) ==
  [email |-> email,
   available |-> \/ ~MapHas(m, email)
                 \/ MapGet(m, email).uid = currentUser]

\* the call as it stands at `await this.isEmailAvailable(email)`: the
\* availability has been read, the rest runs in a later microtask
changeEmailCall(m, email) ==
  [email |-> email, available |-> ~MapHas(m, email)]

\* changeEmail up to its await
changeEmail(email) ==
  /\ IF currentUser = Null
       THEN /\ ret' = Call("changeEmail", <<email>>, "unknown", Null, NoToken)
            /\ UNCHANGED pending
       ELSE /\ Len(pending) < MaxPending
            /\ pending' = Append(pending, changeEmailCall(users, email))
            /\ ret' = Call("changeEmail", <<email>>, "await", currentUser, NoToken)
  /\ NoNext
  /\ UNCHANGED <<users, currentUser, authState, idTokens, nextUid, subscribed>>
  /\ frontFrame

\* the outcome of the continuation: the loop reads this.currentUser.uid in its
\* first iteration, a TypeError when currentUser is null by then
changeEmailOutcome(m, cur, call) ==
  IF ~call.available THEN "email-not-available"
  ELSE IF Len(m) > 0 /\ cur = Null THEN "throw"
  ELSE "ok"

\* changeEmail after the await
changeEmailResume ==
  /\ Len(pending) > 0
  /\ LET call == Head(pending)
         res == changeEmailOutcome(users, currentUser, call) IN
       /\ users' = IF res = "ok"
                     THEN changeEmailUsers(users, currentUser, call.email)
                     ELSE users
       /\ ret' = Call("changeEmail", <<call.email>>, res, currentUser, NoToken)
  /\ pending' = Tail(pending)
  /\ NoNext
  /\ UNCHANGED <<currentUser, authState, idTokens, nextUid, subscribed>>
  /\ frontFrame

\* `await auth.changeEmail(email)`: the caller awaits the call, so that nothing
\* runs between the two parts
changeEmailAwaited(email) ==
  /\ pending = <<>>
  /\ LET call == changeEmailCall(users, email)
         res == IF currentUser = Null THEN "unknown"
                ELSE changeEmailOutcome(users, currentUser, call) IN
       /\ users' = IF res = "ok"
                     THEN changeEmailUsers(users, currentUser, email)
                     ELSE users
       /\ ret' = Call("changeEmail", <<email>>, res, currentUser, NoToken)
  /\ NoNext
  /\ UNCHANGED <<currentUser, authState, idTokens, nextUid, pending, subscribed>>
  /\ frontFrame

\* a deleteAccount that removes the first account of the directory
deleteAccountUsersFirst(m, uid) ==
  IF Len(m) = 0 THEN m ELSE MapDelete(m, m[1].email)

\* the loop of deleteAccount: the first account whose uid is the signed-in one
deleteAccountUsers(m, uid) ==
  LET i == FirstWithUid(m, uid) IN
    IF i = 0 THEN m ELSE MapDelete(m, m[i].email)

\* a deleteAccount that returns the facade to the value of its construction
deleteAccountToUnknown ==
  /\ IF currentUser = Null
       THEN /\ ret' = Call("deleteAccount", <<>>, "throw", Null, NoToken)
            /\ NoNext
            /\ UNCHANGED <<users, currentUser, authState, idTokens>>
       ELSE /\ users' = deleteAccountUsers(users, currentUser)
            /\ idTokens' = TokenDelete(idTokens, currentUser)
            /\ currentUser' = Null
            /\ Next_(Undefined)
            /\ ret' = Call("deleteAccount", <<>>, "ok", currentUser, NoToken)
  /\ UNCHANGED <<nextUid, pending, subscribed>>
  /\ frontFrame

deleteAccount ==
  /\ IF currentUser = Null
       THEN /\ ret' = Call("deleteAccount", <<>>, "throw", Null, NoToken)
            /\ NoNext
            /\ UNCHANGED <<users, currentUser, authState, idTokens>>
       ELSE /\ users' = deleteAccountUsers(users, currentUser)
            /\ idTokens' = TokenDelete(idTokens, currentUser)
            /\ currentUser' = Null
            /\ Next_(Null)
            /\ ret' = Call("deleteAccount", <<>>, "ok", currentUser, NoToken)
  /\ UNCHANGED <<nextUid, pending, subscribed>>
  /\ frontFrame

\* a signUp that has lost its check
signUpRejectsNever(m, email) == FALSE

\* whether signUp throws 'Email already in use'
signUpRejects(m, email) == MapHas(m, email)

\* a signUp that signs the new user in
signUpSignsIn(email, password) ==
  /\ IF signUpRejects(users, email)
       THEN /\ ret' = Call("signUp", <<email, password>>, "throw", Null, NoToken)
            /\ NoNext
            /\ UNCHANGED <<users, nextUid, currentUser, authState>>
       ELSE /\ nextUid <= MaxUid
            /\ users' = MapSet(users, email, FakeUser(nextUid, email, password))
            /\ nextUid' = nextUid + 1
            /\ currentUser' = nextUid
            /\ Next_(nextUid)
            /\ ret' = Call("signUp", <<email, password>>, "ok", nextUid, NoToken)
  /\ UNCHANGED <<idTokens, pending, subscribed>>
  /\ frontFrame

signUp(email, password) ==
  /\ IF signUpRejects(users, email)
       THEN /\ ret' = Call("signUp", <<email, password>>, "throw", Null, NoToken)
            /\ UNCHANGED <<users, nextUid>>
       ELSE /\ nextUid <= MaxUid
            /\ users' = MapSet(users, email, FakeUser(nextUid, email, password))
            /\ nextUid' = nextUid + 1
            /\ ret' = Call("signUp", <<email, password>>, "ok", nextUid, NoToken)
  /\ NoNext
  /\ UNCHANGED <<currentUser, authState, idTokens, pending, subscribed>>
  /\ frontFrame

(***************************************************************************)
(* The password reset of AuthTesting.  passwordResetTokens is kept as the  *)
(* sequence of its values in insertion order, the key of a value being its *)
(* token field; rateLimitTracker is a function on the emails it has.       *)
(***************************************************************************)
\* time passes: a later instant is the next that Date.now() returns
Tick(t) ==
  /\ t > now
  /\ now' = t
  /\ UNCHANGED <<users, currentUser, authState, idTokens, nextUid,
                 passwordResetTokens, rateLimitTracker, nextResetToken,
                 mintedFor, pending, subscribed, published, delivered, ret>>
  /\ backendUnchanged

\* `fake-reset-token-${Math.random().toString(36).substring(2)}`
ResetToken(n) == <<"fake-reset-token-", n>>

\* this.rateLimitTracker.get(email) || 0
lastRequest(tracker, email) ==
  LET got == IF email \in DOMAIN tracker THEN tracker[email] ELSE Undefined IN
    IF got = Undefined \/ got = 0 THEN 0 ELSE got

\* a cooldown that has not yet ended when exactly RateLimitMs have passed
rateLimitedInclusive(tracker, email, at) ==
  at - lastRequest(tracker, email) <= RateLimitMs

\* now - lastRequest < 60000
rateLimited(tracker, email, at) == at - lastRequest(tracker, email) < RateLimitMs

\* a trigger that looks the email up before it looks at the cooldown
triggerOutcomeLookupFirst(tracker, m, email, at) ==
  IF ~MapHas(m, email) THEN "email-not-in-database"
  ELSE IF rateLimited(tracker, email, at) THEN "rate-limit-exceeded"
  ELSE "ok"

\* the two checks of triggerResetPasswordFlow, in their order
triggerOutcome(tracker, m, email, at) ==
  IF rateLimited(tracker, email, at) THEN "rate-limit-exceeded"
  ELSE IF ~MapHas(m, email) THEN "email-not-in-database"
  ELSE "ok"

\* a trigger that stamps the email whatever the outcome
triggerStampAlways(tracker, email, at, res) ==
  [e \in DOMAIN tracker \cup {email} |-> IF e = email THEN at ELSE tracker[e]]

\* this.rateLimitTracker.set(email, now), reached on success only
triggerStamp(tracker, email, at, res) ==
  IF res = "ok"
    THEN [e \in DOMAIN tracker \cup {email} |-> IF e = email THEN at ELSE tracker[e]]
    ELSE tracker

triggerResetPasswordFlow(email) ==
  /\ LET res == triggerOutcome(rateLimitTracker, users, email, now) IN
       /\ IF res = "ok"
            THEN /\ nextResetToken <= MaxResetTokens
                 /\ passwordResetTokens' =
                      Append(passwordResetTokens,
                             [token |-> ResetToken(nextResetToken), email |-> email,
                              expiresAt |-> now + ExpiresMs])
                 /\ nextResetToken' = nextResetToken + 1
                 /\ mintedFor' = Append(mintedFor, MapGet(users, email).uid)
            ELSE UNCHANGED <<passwordResetTokens, nextResetToken, mintedFor>>
       /\ rateLimitTracker' = triggerStamp(rateLimitTracker, email, now, res)
       /\ ret' = Call("triggerResetPasswordFlow", <<email>>, res, Null, NoToken)
  /\ NoNext
  /\ UNCHANGED <<users, currentUser, authState, idTokens, nextUid, now, pending,
                 subscribed>>
  /\ backendUnchanged

\* this.passwordResetTokens.get(token): the index of the entry (0: none)
ResetTokenIndex(tokens, token) ==
  IF \E i \in 1..Len(tokens) : tokens[i].token = token
    THEN CHOOSE i \in 1..Len(tokens) : tokens[i].token = token
    ELSE 0

\* a delete that leaves the entry in the ledger
ResetTokenDeleteKept(tokens, token) == tokens

\* this.passwordResetTokens.delete(token)
ResetTokenDelete(tokens, token) ==
  LET keep(r) == r.token # token IN SelectSeq(tokens, keep)

\* a token that counts as expired already at its expiresAt
expiredInclusive(resetToken, at) == at >= resetToken.expiresAt

\* Date.now() > resetToken.expiresAt
expired(resetToken, at) == at > resetToken.expiresAt

\* the two checks of requestChangePassword
requestChangePasswordOutcome(tokens, token, at) ==
  IF ResetTokenIndex(tokens, token) = 0 THEN "token-not-found"
  ELSE IF expired(tokens[ResetTokenIndex(tokens, token)], at) THEN "token-expired"
  ELSE "ok"

\* a requestChangePassword that gives the password to every account
requestChangePasswordUsersAll(m, email, newPassword) ==
  IF MapHas(m, email)
    THEN [i \in 1..Len(m) |-> [m[i] EXCEPT !.password = newPassword]]
    ELSE m

\* the directory requestChangePassword leaves when it accepts the token: the
\* account that owns the token's email now, if there is one, gets the password
requestChangePasswordUsers(m, email, newPassword) ==
  IF MapHas(m, email)
    THEN MapSet(m, email, [MapGet(m, email) EXCEPT !.password = newPassword])
    ELSE m

requestChangePassword(passwordToken, newPassword) ==
  /\ LET res == requestChangePasswordOutcome(passwordResetTokens, passwordToken, now)
         i == ResetTokenIndex(passwordResetTokens, passwordToken) IN
       /\ passwordResetTokens' =
            IF res = "token-not-found" THEN passwordResetTokens
            ELSE ResetTokenDelete(passwordResetTokens, passwordToken)
       /\ users' =
            IF res = "ok"
              THEN requestChangePasswordUsers(users, passwordResetTokens[i].email,
                                              newPassword)
              ELSE users
       /\ ret' = Call("requestChangePassword", <<passwordToken, newPassword>>, res,
                      Null, NoToken)
  /\ NoNext
  /\ UNCHANGED <<currentUser, authState, idTokens, nextUid, rateLimitTracker,
                 nextResetToken, mintedFor, now, pending, subscribed>>
  /\ backendUnchanged

\* the token values a caller can pass: those minted so far (a test reads them
\* with getPasswordResetTokens) and the tests' 'invalid-token'
ResetTokenValues == {ResetToken(n) : n \in 0..(nextResetToken - 1)}

(***************************************************************************)
(* AuthBackendTesting, the administrative facade.                          *)
(***************************************************************************)
backFrame ==
  UNCHANGED <<users, currentUser, authState, idTokens, nextUid,
              passwordResetTokens, rateLimitTracker, nextResetToken, mintedFor,
              now, pending, subscribed, published, delivered>>

\* the event an observer is handed, and what a lookup of the event's uid made
\* from inside the observer finds in the array a
Event(kind, uid, a) ==
  [kind |-> kind, uid |-> uid,
   found |-> \E i \in 1..Len(a) : a[i].uid = uid]

\* a next(event) that runs before the array is changed
EmitFirst(kind, uid, a) ==
  /\ backPublished' = <<Event(kind, uid, registeredUsers)>>
  /\ backEvents' = [s \in BackObservers |->
                      IF <<kind, s>> \in backSubscribed
                        THEN <<Event(kind, uid, registeredUsers)>> ELSE <<>>]
  /\ backUnhandled' = {<<s, Event(kind, uid, registeredUsers)>> :
                         s \in {x \in Raisers : <<kind, x>> \in backSubscribed}}

\* a next(event) that ends at the first handler that raises: the observers
\* are called in the order of their numbers
EmitUntilRaised(kind, uid, a) ==
  /\ backPublished' = <<Event(kind, uid, a)>>
  /\ backEvents' = [s \in BackObservers |->
                      IF /\ <<kind, s>> \in backSubscribed
                         /\ \A x \in Raisers :
                              <<kind, x>> \in backSubscribed => s <= x
                        THEN <<Event(kind, uid, a)>> ELSE <<>>]
  /\ backUnhandled' = {<<s, Event(kind, uid, a)>> :
                         s \in {x \in Raisers : <<kind, x>> \in backSubscribed}}

\* Subject.next(event) while the array is a: every observer subscribed to that
\* subject gets the event, synchronously
Emit(kind, uid, a) ==
  /\ backPublished' = <<Event(kind, uid, a)>>
  /\ backEvents' = [s \in BackObservers |->
                      IF <<kind, s>> \in backSubscribed
                        THEN <<Event(kind, uid, a)>> ELSE <<>>]
  /\ backUnhandled' = {<<s, Event(kind, uid, a)>> :
                         s \in {x \in Raisers : <<kind, x>> \in backSubscribed}}

\* what next(event) hands back to the method that called it: rxjs 7 catches
\* what a handler raises and reports it from a timer, so that next returns
\* normally whoever is subscribed
SubjectNextOutcome(kind, subscriptions) == "ok"

NoEmit ==
  /\ backPublished' = <<>>
  /\ backEvents' = [s \in BackObservers |-> <<>>]
  /\ backUnhandled' = {}

\* Array.find / findIndex: the first element that matches (0: none)
FindByUid(a, uid) ==
  IF \E i \in 1..Len(a) : a[i].uid = uid
    THEN CHOOSE i \in 1..Len(a) : a[i].uid = uid /\ \A k \in 1..(i - 1) : a[k].uid # uid
    ELSE 0

FindByEmail(a, email) ==
  IF \E i \in 1..Len(a) : a[i].email = email
    THEN CHOOSE i \in 1..Len(a) :
           a[i].email = email /\ \A k \in 1..(i - 1) : a[k].email # email
    ELSE 0

\* the array signUpWithEmailPassword leaves: three uuidv4() values, one push
signUpWithEmailPasswordUsers(a, email, password, uuid) ==
  Append(a, [idToken |-> uuid + 1, uid |-> uuid, email |-> email,
             password |-> password, refreshToken |-> uuid + 2])

\* a signUpWithEmailPassword that writes the session facade's directory too
signUpWithEmailPasswordShared(email, password) ==
  /\ nextUuid + 2 <= MaxUuid
  /\ registeredUsers' =
       signUpWithEmailPasswordUsers(registeredUsers, email, password, nextUuid)
  /\ users' = MapSet(users, email, FakeUser(nextUuid, email, password))
  /\ nextUuid' = nextUuid + 3
  /\ Emit("created", nextUuid, registeredUsers')
  /\ ret' = Call("backend.signUp", <<email, password>>, "ok", nextUuid, NoToken)
  /\ UNCHANGED <<backSubscribed, issued, currentUser, authState, idTokens,
                 nextUid, passwordResetTokens, rateLimitTracker, nextResetToken,
                 mintedFor, now, pending, subscribed, published, delivered>>

signUpWithEmailPassword(email, password) ==
  /\ nextUuid + 2 <= MaxUuid
  /\ registeredUsers' =
       signUpWithEmailPasswordUsers(registeredUsers, email, password, nextUuid)
  /\ nextUuid' = nextUuid + 3
  /\ Emit("created", nextUuid, registeredUsers')
  /\ ret' = Call("backend.signUp", <<email, password>>,
                 SubjectNextOutcome("created", backSubscribed), nextUuid, NoToken)
  /\ UNCHANGED <<backSubscribed, issued>>
  /\ backFrame

\* the outcome of the three checks of the backend's signInWithEmailAndPassword
Backend_signInOutcome(a, email, password) ==
  IF ~isValidEmail(email) THEN "invalid-email"
  ELSE IF FindByEmail(a, email) = 0 THEN "user-not-found"
  ELSE IF a[FindByEmail(a, email)].password # password THEN "wrong-password"
  ELSE "ok"

\* a sign-in that mints an idToken and a refreshToken of its own
Backend_signInMinting(email, password) ==
  /\ LET res == Backend_signInOutcome(registeredUsers, email, password)
         i == FindByEmail(registeredUsers, email) IN
       IF res = "ok"
         THEN /\ nextUuid + 1 <= MaxUuid
              /\ registeredUsers' =
                   [registeredUsers EXCEPT ![i].idToken = nextUuid,
                                           ![i].refreshToken = nextUuid + 1]
              /\ nextUuid' = nextUuid + 2
              /\ ret' = Call("backend.signIn", <<email, password>>, "ok",
                             registeredUsers[i].uid, <<nextUuid, nextUuid + 1>>)
              /\ issued' = issued \cup
                             {<<nextUuid, nextUuid + 1, registeredUsers[i].uid>>}
         ELSE /\ ret' = Call("backend.signIn", <<email, password>>, res, Null,
                             NoToken)
              /\ UNCHANGED <<registeredUsers, nextUuid, issued>>
  /\ NoEmit
  /\ UNCHANGED backSubscribed
  /\ backFrame

Backend_signInWithEmailAndPassword(email, password) ==
  /\ LET res == Backend_signInOutcome(registeredUsers, email, password) IN
       IF res = "ok"
         THEN LET user == registeredUsers[FindByEmail(registeredUsers, email)] IN
                /\ ret' = Call("backend.signIn", <<email, password>>, "ok",
                               user.uid, <<user.idToken, user.refreshToken>>)
                /\ issued' = issued \cup
                               {<<user.idToken, user.refreshToken, user.uid>>}
         ELSE /\ ret' = Call("backend.signIn", <<email, password>>, res, Null,
                             NoToken)
              /\ UNCHANGED issued
  /\ NoEmit
  /\ UNCHANGED <<registeredUsers, nextUuid, backSubscribed>>
  /\ backFrame

\* the array the backend's changeEmail leaves
Backend_changeEmailUsers(a, uid, newEmail) ==
  IF FindByUid(a, uid) = 0 THEN a
  ELSE [a EXCEPT ![FindByUid(a, uid)].email = newEmail]

Backend_changeEmail(uid, newEmail) ==
  /\ registeredUsers' = Backend_changeEmailUsers(registeredUsers, uid, newEmail)
  /\ ret' = Call("backend.changeEmail", <<uid, newEmail>>,
                 IF FindByUid(registeredUsers, uid) = 0 THEN "unknown" ELSE "ok",
                 Null, NoToken)
  /\ NoEmit
  /\ UNCHANGED <<nextUuid, backSubscribed, issued>>
  /\ backFrame

\* registeredUsers.splice(index, 1)
Splice(a, index) == [i \in 1..(Len(a) - 1) |-> IF i < index THEN a[i] ELSE a[i + 1]]

\* a deleteUser that has lost its check of the index: splice(-1, 1) removes
\* the last element
deleteUserUnchecked(uid) ==
  /\ LET index == FindByUid(registeredUsers, uid) IN
       IF index = 0
         THEN /\ registeredUsers' =
                   IF Len(registeredUsers) = 0 THEN registeredUsers
                   ELSE Splice(registeredUsers, Len(registeredUsers))
              /\ Emit("deleted", uid, registeredUsers')
              /\ ret' = Call("backend.deleteUser", <<uid>>, "unknown", Null, NoToken)
         ELSE /\ registeredUsers' = Splice(registeredUsers, index)
              /\ Emit("deleted", uid, registeredUsers')
              /\ ret' = Call("backend.deleteUser", <<uid>>, "ok", Null, NoToken)
  /\ UNCHANGED <<nextUuid, backSubscribed, issued>>
  /\ backFrame

deleteUser(uid) ==
  /\ LET index == FindByUid(registeredUsers, uid) IN
       IF index = 0
         THEN /\ ret' = Call("backend.deleteUser", <<uid>>, "unknown", Null, NoToken)
              /\ NoEmit
              /\ UNCHANGED registeredUsers
         ELSE /\ registeredUsers' = Splice(registeredUsers, index)
              /\ Emit("deleted", uid, registeredUsers')
              /\ ret' = Call("backend.deleteUser", <<uid>>,
                             SubjectNextOutcome("deleted", backSubscribed),
                             Null, NoToken)
  /\ UNCHANGED <<nextUuid, backSubscribed, issued>>
  /\ backFrame

getUidByEmail(email) ==
  /\ LET i == FindByEmail(registeredUsers, email) IN
       ret' = IF i = 0
                THEN Call("backend.getUidByEmail", <<email>>, "email-not-found", Null, NoToken)
                ELSE Call("backend.getUidByEmail", <<email>>, "ok",
                          registeredUsers[i].uid, NoToken)
  /\ NoEmit
  /\ UNCHANGED <<registeredUsers, nextUuid, backSubscribed, issued>>
  /\ backFrame

FindByIdToken(a, idToken) ==
  IF \E i \in 1..Len(a) : a[i].idToken = idToken
    THEN CHOOSE i \in 1..Len(a) :
           a[i].idToken = idToken /\ \A k \in 1..(i - 1) : a[k].idToken # idToken
    ELSE 0

\* a lookup that takes whichever account comes first
FindByRefreshTokenFirst(a, refreshToken) == IF Len(a) > 0 THEN 1 ELSE 0

FindByRefreshToken(a, refreshToken) ==
  IF \E i \in 1..Len(a) : a[i].refreshToken = refreshToken
    THEN CHOOSE i \in 1..Len(a) :
           /\ a[i].refreshToken = refreshToken
           /\ \A k \in 1..(i - 1) : a[k].refreshToken # refreshToken
    ELSE 0

getUidFromIdToken(idToken) ==
  /\ LET i == FindByIdToken(registeredUsers, idToken) IN
       ret' = IF i = 0
                THEN Call("backend.getUidFromIdToken", <<idToken>>, "unknown", Null,
                          NoToken)
                ELSE Call("backend.getUidFromIdToken", <<idToken>>, "ok",
                          registeredUsers[i].uid, NoToken)
  /\ NoEmit
  /\ UNCHANGED <<registeredUsers, nextUuid, backSubscribed, issued>>
  /\ backFrame

\* a refresh that rotates the refresh token as well
signInWithRefreshTokenUsersRotating(a, i, newIdToken) ==
  [a EXCEPT ![i].idToken = newIdToken, ![i].refreshToken = newIdToken]

\* a refresh that leaves the account's idToken as it was
signInWithRefreshTokenUsersKept(a, i, newIdToken) == a

\* the array a successful signInWithRefreshToken leaves: user.idToken = newIdToken
signInWithRefreshTokenUsers(a, i, newIdToken) ==
  [a EXCEPT ![i].idToken = newIdToken]

signInWithRefreshToken(refreshToken) ==
  /\ LET i == FindByRefreshToken(registeredUsers, refreshToken) IN
       IF i = 0
         THEN /\ ret' = Call("backend.signInWithRefreshToken", <<refreshToken>>,
                             "unknown", Null, NoToken)
              /\ UNCHANGED <<registeredUsers, nextUuid, issued>>
         ELSE /\ nextUuid <= MaxUuid
              /\ registeredUsers' =
                   signInWithRefreshTokenUsers(registeredUsers, i, nextUuid)
              /\ nextUuid' = nextUuid + 1
              /\ ret' = Call("backend.signInWithRefreshToken", <<refreshToken>>,
                             "ok", registeredUsers[i].uid, <<nextUuid>>)
              /\ issued' = issued \cup
                             {<<nextUuid, refreshToken, registeredUsers[i].uid>>}
  /\ NoEmit
  /\ UNCHANGED backSubscribed
  /\ backFrame

\* the array changePassword leaves
changePasswordUsers(a, uid, newPassword) ==
  IF FindByUid(a, uid) = 0 THEN a
  ELSE [a EXCEPT ![FindByUid(a, uid)].password = newPassword]

changePassword(uid, newPassword) ==
  /\ registeredUsers' = changePasswordUsers(registeredUsers, uid, newPassword)
  /\ ret' = Call("backend.changePassword", <<uid, newPassword>>,
                 IF FindByUid(registeredUsers, uid) = 0 THEN "unknown" ELSE "ok",
                 Null, NoToken)
  /\ NoEmit
  /\ UNCHANGED <<nextUuid, backSubscribed, issued>>
  /\ backFrame

\* a subscription to a subject that replays: the new observer of
\* onUserCreated$ is handed the creation of the account registered last
Backend_subscribeReplay(kind, s) ==
  /\ <<kind, s>> \notin backSubscribed
  /\ backSubscribed' = backSubscribed \cup {<<kind, s>>}
  /\ ret' = Call("backend.subscribe", <<kind, s>>, "ok", Null, NoToken)
  /\ backPublished' = <<>>
  /\ backEvents' = [x \in BackObservers |->
                      IF x = s /\ kind = "created" /\ Len(registeredUsers) > 0
                        THEN <<Event(kind, registeredUsers[Len(registeredUsers)].uid,
                                     registeredUsers)>>
                        ELSE <<>>]
  /\ backUnhandled' = {}
  /\ UNCHANGED <<registeredUsers, nextUuid, issued>>
  /\ backFrame

\* onUserCreated$.subscribe(observer) / onUserDeleted$.subscribe(observer):
\* a Subject replays nothing
Backend_subscribe(kind, s) ==
  /\ <<kind, s>> \notin backSubscribed
  /\ backSubscribed' = backSubscribed \cup {<<kind, s>>}
  /\ ret' = Call("backend.subscribe", <<kind, s>>, "ok", Null, NoToken)
  /\ NoEmit
  /\ UNCHANGED <<registeredUsers, nextUuid, issued>>
  /\ backFrame

Backend_unsubscribe(kind, s) ==
  /\ <<kind, s>> \in backSubscribed
  /\ backSubscribed' = backSubscribed \ {<<kind, s>>}
  /\ ret' = Call("backend.unsubscribe", <<kind, s>>, "ok", Null, NoToken)
  /\ NoEmit
  /\ UNCHANGED <<registeredUsers, nextUuid, issued>>
  /\ backFrame

EventKinds == {"created", "deleted"}

\* the uuids a caller of the administrative facade can name as a uid or as a
\* token: every value drawn so far, and one that was never drawn
BackendUids == (1..(nextUuid - 1)) \cup {MaxUuid + 1}

(***************************************************************************)
(* The directory of the session facade: accounts are created by signUp and *)
(* by addTestUser, with a uid of the caller's choice or a generated one,   *)
(* and moved or deleted by the session that owns them.                     *)
(***************************************************************************)
NextDirectory ==
  \/ \E e \in {EmailA, EmailB} : signUp(e, "pw1")
  \/ \E e \in {EmailA, EmailB}, u \in {0, 1} : addTestUser(e, "pw2", u)
  \/ \E e \in {EmailA, EmailB}, p \in Passwords : signInWithEmailAndPassword(e, p)
  \/ signOut
  \/ \E e \in Emails : isEmailAvailable(e)
  \/ \E e \in Emails : changeEmailAwaited(e)
  \/ deleteAccount

SpecDirectory == Init /\ [][NextDirectory]_vars

(***************************************************************************)
(* The sessions of the session facade and their tokens, over a directory   *)
(* that signUp and addTestUser fill and the password reset writes.         *)
(***************************************************************************)
NextSessionTokens ==
  \/ \E e \in {EmailA} : signUp(e, "pw1")
  \/ \E e \in {EmailA, EmailB}, u \in {0, 1} : addTestUser(e, "pw1", u)
  \/ \E e \in {EmailA, EmailB}, p \in Passwords : signInWithEmailAndPassword(e, p)
  \/ signOut
  \/ getIdToken
  \/ \E e \in {EmailA, EmailB} : changeEmailAwaited(e)
  \/ deleteAccount
  \/ \E e \in {EmailA} : triggerResetPasswordFlow(e)
  \/ \E t \in ResetTokenValues : requestChangePassword(t, "pw2")
  \/ \E t \in {RateLimitMs} : Tick(t)

SpecSessionTokens == Init /\ [][NextSessionTokens]_vars

(***************************************************************************)
(* The session facade driven by one caller that awaits every call.         *)
(***************************************************************************)
Next ==
  \/ \E e \in Emails, p \in Passwords : signUp(e, p)
  \/ \E e \in Emails, p \in Passwords : signInWithEmailAndPassword(e, p)
  \/ getIdToken
  \/ signOut
  \/ \E e \in Emails : isEmailAvailable(e)
  \/ \E e \in Emails : changeEmailAwaited(e)
  \/ deleteAccount
  \/ \E s \in Subs : subscribe(s)
  \/ \E s \in Subs : unsubscribe(s)

Spec == Init /\ [][Next]_vars

(***************************************************************************)
(* The session facade under callers that do not await changeEmail: any     *)
(* call may run between the two parts of a changeEmail.                    *)
(***************************************************************************)
NextConcurrent ==
  \/ \E e \in Emails, p \in Passwords : signUp(e, p)
  \/ \E e \in Emails, p \in Passwords : signInWithEmailAndPassword(e, p)
  \/ signOut
  \/ \E e \in Emails : changeEmail(e)
  \/ changeEmailResume
  \/ deleteAccount

SpecConcurrent == Init /\ [][NextConcurrent]_vars

(***************************************************************************)
(* The administrative facade.                                              *)
(***************************************************************************)
NextBackend ==
  \/ \E e \in Emails, p \in Passwords : signUpWithEmailPassword(e, p)
  \/ \E e \in Emails, p \in Passwords : Backend_signInWithEmailAndPassword(e, p)
  \/ \E u \in BackendUids, e \in Emails : Backend_changeEmail(u, e)
  \/ \E u \in BackendUids : deleteUser(u)
  \/ \E e \in Emails : getUidByEmail(e)

SpecBackend == Init /\ [][NextBackend]_vars

(***************************************************************************)
(* The administrative facade and the observers of its two event streams.   *)
(***************************************************************************)
NextEvents ==
  \/ \E e \in Emails, p \in Passwords : signUpWithEmailPassword(e, p)
  \/ \E u \in BackendUids : deleteUser(u)
  \/ \E e \in Emails : getUidByEmail(e)
  \/ \E k \in EventKinds, s \in BackSubs : Backend_subscribe(k, s)
  \/ \E k \in EventKinds, s \in BackSubs : Backend_unsubscribe(k, s)

SpecEvents == Init /\ [][NextEvents]_vars

(***************************************************************************)
(* The two event streams with observers whose handler raises among the     *)
(* subscribers.                                                            *)
(***************************************************************************)
NextRaising ==
  \/ \E e \in {EmailA, EmailB} : signUpWithEmailPassword(e, "pw1")
  \/ \E u \in BackendUids : deleteUser(u)
  \/ \E k \in EventKinds, s \in BackObservers : Backend_subscribe(k, s)
  \/ \E k \in EventKinds, s \in BackObservers : Backend_unsubscribe(k, s)

SpecRaising == Init /\ [][NextRaising]_vars

(***************************************************************************)
(* The administrative facade's tokens: what issues them, what resolves     *)
(* them and what may invalidate them.                                      *)
(***************************************************************************)
NextTokens ==
  \/ \E e \in Emails, p \in Passwords : signUpWithEmailPassword(e, p)
  \/ \E e \in Emails, p \in Passwords : Backend_signInWithEmailAndPassword(e, p)
  \/ \E t \in BackendUids : signInWithRefreshToken(t)
  \/ \E t \in BackendUids : getUidFromIdToken(t)
  \/ \E u \in BackendUids : Backend_changeEmail(u, EmailB)
  \/ \E u \in BackendUids : changePassword(u, "pw2")
  \/ \E u \in BackendUids : deleteUser(u)

SpecTokens == Init /\ [][NextTokens]_vars

(***************************************************************************)
(* The password reset of the session facade, while time passes.            *)
(***************************************************************************)
NextReset ==
  \/ \E e \in Emails : nextUid <= MaxResetAccounts /\ signUp(e, "pw1")
  \/ \E e \in Emails : triggerResetPasswordFlow(e)
  \/ \E t \in ResetTokenValues, p \in Passwords : requestChangePassword(t, p)
  \/ \E t \in Times : Tick(t)

SpecReset == Init /\ [][NextReset]_vars

(***************************************************************************)
(* The password reset while accounts are renamed and deleted.              *)
(***************************************************************************)
CooldownTimes == {RateLimitMs, 2 * RateLimitMs - 1, 2 * RateLimitMs}

NextResetAccounts ==
  \/ \E e \in {EmailA, EmailB} : nextUid <= MaxResetAccounts /\ signUp(e, "pw1")
  \/ \E e \in {EmailA, EmailB} : signInWithEmailAndPassword(e, "pw1")
  \/ \E e \in {EmailB, EmailBad} : changeEmailAwaited(e)
  \/ deleteAccount
  \/ \E e \in Emails : triggerResetPasswordFlow(e)
  \/ \E t \in CooldownTimes : Tick(t)

SpecResetAccounts == Init /\ [][NextResetAccounts]_vars

(***************************************************************************)
(* The password reset under a session: a token is minted once the clock    *)
(* has reached the cooldown, and is used while accounts sign in, are       *)
(* renamed, deleted and created again.                                     *)
(***************************************************************************)
NextResetSession ==
  \/ \E e \in {EmailA, EmailB} : nextUid <= MaxResetAccounts /\ signUp(e, "pw1")
  \/ \E e \in {EmailA, EmailB}, p \in Passwords : signInWithEmailAndPassword(e, p)
  \/ \E e \in {EmailB} : changeEmailAwaited(e)
  \/ deleteAccount
  \/ \E e \in {EmailA, EmailB} : isEmailAvailable(e)
  \/ \E e \in {EmailA, EmailB} : triggerResetPasswordFlow(e)
  \/ \E t \in ResetTokenValues, p \in Passwords : requestChangePassword(t, p)
  \/ \E t \in {RateLimitMs} : Tick(t)
  \/ signOut

SpecResetSession == Init /\ [][NextResetSession]_vars

(***************************************************************************)
(* One instance of each facade, as an application and its tests hold them. *)
(***************************************************************************)
created == (nextUid - 1) + ((nextUuid - 1) \div 3)

NextBoth ==
  \/ /\ created < MaxBothAccounts
     /\ \/ \E e \in Emails, p \in Passwords : signUp(e, p)
        \/ \E e \in Emails, p \in Passwords : signUpWithEmailPassword(e, p)
  \/ \E e \in Emails, p \in Passwords : signInWithEmailAndPassword(e, p)
  \/ \E e \in Emails : isEmailAvailable(e)
  \/ \E e \in Emails : changeEmailAwaited(e)
  \/ deleteAccount
  \/ \E e \in Emails, p \in Passwords : Backend_signInWithEmailAndPassword(e, p)
  \/ \E u \in BackendUids, e \in Emails : Backend_changeEmail(u, e)
  \/ \E u \in BackendUids : deleteUser(u)
  \/ \E e \in Emails : getUidByEmail(e)

SpecBoth == Init /\ [][NextBoth]_vars

(***************************************************************************)
(* Vocabulary of the properties.                                           *)
(***************************************************************************)
SignedOutValues == {Undefined, Null}

UniqueEmails(m) == \A i, j \in 1..Len(m) : m[i].email = m[j].email => i = j

Uids(m) == {m[i].uid : i \in 1..Len(m)}

NothingPublished == published' = <<>> /\ \A s \in Subs : delivered'[s] = <<>>

\* C1: on the session facade signUp(e, p) on an email that an account owns
\* throws and leaves the directory and the session as they were; on a free
\* email it adds exactly one account under e, with the uid it returns, and
\* leaves the other accounts and the session alone; no two accounts ever
\* share an email.
C1_SignUpKeepsEmailsUnique ==
  /\ [](UniqueEmails(users))
  /\ [][ret'.op = "signUp" =>
          LET e == ret'.arg[1]
              p == ret'.arg[2] IN
            /\ NothingPublished
            /\ UNCHANGED <<currentUser, authState, idTokens>>
            /\ IF MapHas(users, e)
                 THEN ret'.res = "throw" /\ UNCHANGED users
                 ELSE /\ ret'.res = "ok"
                      /\ ret'.uid \notin Uids(users)
                      /\ users' = Append(users, FakeUser(ret'.uid, e, p))]_vars

\* C1 witness: a signUp was rejected while a session was signed in
C1_Witness ==
  /\ ret.op = "signUp"
  /\ ret.res = "throw"
  /\ currentUser # Null
  /\ Len(users) = 2

\* C2: on the administrative facade no two registered accounts share an email
C2_BackendEmailsUnique == UniqueEmails(registeredUsers)

\* C3: on the session facade a changeEmail(e) that returns success never
\* removes an account from the directory: an account that a signUp(e, .)
\* created while the changeEmail was suspended is still there afterwards.
C3_ChangeEmailLosesNoAccount ==
  [][ret'.op = "changeEmail" /\ ret'.res = "ok" => Uids(users) \subseteq Uids(users')]_vars

FrontOps == {"signUp", "signIn", "getIdToken", "signOut", "isEmailAvailable",
             "changeEmail", "deleteAccount", "addTestUser", "subscribe", "unsubscribe"}

BackendOps == {"backend.signUp", "backend.signIn", "backend.changeEmail",
               "backend.deleteUser", "backend.getUidByEmail",
               "backend.getUidFromIdToken", "backend.signInWithRefreshToken",
               "backend.changePassword", "backend.subscribe",
               "backend.unsubscribe"}

WellFormed(e) == e \in {EmailA, EmailB}

\* the order in which the claim says a sign-in fails
OutcomeInOrder(wellFormed, owned, passwordMatches) ==
  IF ~wellFormed THEN "invalid-email"
  ELSE IF ~owned THEN "user-not-found"
  ELSE IF ~passwordMatches THEN "wrong-password"
  ELSE "ok"

\* C5: in both facades signInWithEmailAndPassword answers invalid-email for a
\* malformed email whatever the directory holds, else user-not-found for an
\* email no account owns, else wrong-password when the password differs from
\* the one stored for the account the lookup finds, else success.
C5_SignInFailsInOrder ==
  [][/\ ret'.op = "signIn" =>
          LET e == ret'.arg[1]
              owned == \E i \in 1..Len(users) : users[i].email = e IN
            ret'.res = OutcomeInOrder(WellFormed(e), owned,
                         owned /\ \E i \in 1..Len(users) :
                            users[i].email = e /\ users[i].password = ret'.arg[2])
     /\ ret'.op = "backend.signIn" =>
          LET e == ret'.arg[1]
              i == FindByEmail(registeredUsers, e) IN
            ret'.res = OutcomeInOrder(WellFormed(e), i # 0,
                         i # 0 /\ registeredUsers[i].password = ret'.arg[2])]_vars

\* C5 witness: invalid-email although an account with that very email and
\* password is in the directory
C5_Witness ==
  /\ ret.op = "signIn"
  /\ ret.res = "invalid-email"
  /\ MapHas(users, ret.arg[1])
  /\ MapGet(users, ret.arg[1]).password = ret.arg[2]

\* the accounts with what identifies them apart from the email
Identities(m) == {<<m[i].uid, m[i].password>> : i \in 1..Len(m)}

\* C6: a successful signInWithEmailAndPassword(e, p) on the session facade
\* makes the session SignedIn(uid), uid being the uid of the account that owns
\* e, and hands uid to every observer subscribed to authState$ (and to no
\* other).  That uid is the one signUp returned for the account: signUp stores
\* the uid it returns, and changeEmail keeps uid and password of every account.
C6_SignInPublishesTheAccountsUid ==
  [][/\ ret'.op = "signIn" /\ ret'.res = "ok" =>
          \E i \in 1..Len(users) :
            /\ users[i].email = ret'.arg[1]
            /\ users[i].uid \in 1..(nextUid - 1)
            /\ currentUser' = users[i].uid
            /\ authState' = users[i].uid
            /\ published' = <<users[i].uid>>
            /\ \A x \in Subs :
                 delivered'[x] = IF x \in subscribed THEN <<users[i].uid>> ELSE <<>>
     /\ ret'.op = "signUp" /\ ret'.res = "ok" =>
          /\ ret'.uid = nextUid
          /\ \E i \in 1..Len(users') :
               users'[i].email = ret'.arg[1] /\ users'[i].uid = ret'.uid
     /\ ret'.op = "changeEmail" => Identities(users') = Identities(users)]_vars

\* C6 witness: a sign-in succeeded while an observer was subscribed, for an
\* account that is not the first one created
C6_Witness ==
  /\ ret.op = "signIn"
  /\ ret.res = "ok"
  /\ currentUser = 2
  /\ subscribed # {}
  /\ \A x \in subscribed : delivered[x] = <<2>>

SignInFailures == {"invalid-email", "user-not-found", "wrong-password"}

\* C7: a failed signInWithEmailAndPassword on the session facade leaves the
\* session state, the token store and the directory as they were and
\* publishes nothing.
C7_FailedSignInChangesNothing ==
  [][ret'.op = "signIn" /\ ret'.res \in SignInFailures =>
       /\ UNCHANGED <<users, nextUid, currentUser, authState, idTokens, subscribed>>
       /\ NothingPublished]_vars

\* C7 witness: a wrong password was given while another sign-in was in force
C7_Witness ==
  /\ ret.op = "signIn"
  /\ ret.res = "wrong-password"
  /\ currentUser # Null
  /\ authState = currentUser
  /\ currentUser \in DOMAIN idTokens

\* C8: getIdToken throws whenever the session is not SignedIn (at the start,
\* after every signOut and deleteAccount) and returns the stored, non-empty
\* token when it is; right after a successful sign-in it is bound to succeed.
C8_GetIdTokenNeedsASession ==
  /\ [][ret'.op = "getIdToken" =>
          IF authState \in SignedOutValues
            THEN ret'.res = "throw"
            ELSE /\ ret'.res = "ok"
                 /\ Len(ret'.token) > 0
                 /\ ret'.token = idTokens[authState]]_vars
  /\ [](ret.op \in {"constructor", "signOut"} \/ (ret.op = "deleteAccount" /\ ret.res = "ok")
          => authState \in SignedOutValues /\ currentUser = Null)
  /\ [](ret.op = "signIn" /\ ret.res = "ok"
          => authState \notin SignedOutValues
             /\ authState \in DOMAIN idTokens
             /\ Len(idTokens[authState]) > 0)

\* C8 witness: getIdToken returned a token
C8_Witness ==
  /\ ret.op = "getIdToken"
  /\ ret.res = "ok"
  /\ Len(ret.token) > 0
  /\ Len(users) > 0

\* C9: signOut never throws; it ends SignedOut, with null published and the
\* signed-in account's token gone from the store, and leaves the directory
\* alone; signing out again from there changes neither session, token store
\* nor directory.
C9_SignOutIsIdempotent ==
  /\ [][ret'.op = "signOut" =>
          /\ ret'.res = "ok"
          /\ currentUser' = Null
          /\ authState' = Null
          /\ published' = <<Null>>
          /\ authState \notin SignedOutValues => authState \notin DOMAIN idTokens'
          /\ \A u \in DOMAIN idTokens' : u \in DOMAIN idTokens /\ idTokens'[u] = idTokens[u]
          /\ UNCHANGED <<users, nextUid>>]_vars
  /\ [](ret.op = "signOut" =>
          /\ currentUser = Null
          /\ authState = Null
          /\ signOutTokens(currentUser, idTokens) = idTokens)

\* C9 witness: a signOut after sign-ins as two accounts, observed by a
\* subscriber: the token of the account signed in first is still in the store
C9_Witness ==
  /\ ret.op = "signOut"
  /\ published = <<Null>>
  /\ DOMAIN idTokens # {}
  /\ \E x \in subscribed : delivered[x] = <<Null>>

\* what deleteAccount does apart from what a later sign-in with the former
\* credentials answers: it throws and changes nothing when the session is not
\* SignedIn; when SignedIn(uid) it removes the account with that uid and no
\* other, removes its token, ends SignedOut and publishes null, and the
\* account's former email is available again
DeleteAccountStep(answer(_)) ==
  ret'.op = "deleteAccount" =>
    IF authState \in SignedOutValues
      THEN /\ ret'.res = "throw"
           /\ UNCHANGED <<users, nextUid, currentUser, authState, idTokens, subscribed>>
           /\ NothingPublished
      ELSE /\ ret'.res = "ok"
           /\ \E i \in 1..Len(users) : users[i].uid = authState
           /\ \A i \in 1..Len(users) :
                IF users[i].uid = authState
                  THEN /\ \A k \in 1..Len(users') : users'[k].email # users[i].email
                       /\ signInOutcome(users', users[i].email, users[i].password)
                            = answer(users[i].email)
                  ELSE \E k \in 1..Len(users') : users'[k] = users[i]
           /\ Len(users') = Len(users) - 1
           /\ idTokens' = [u \in DOMAIN idTokens \ {authState} |-> idTokens[u]]
           /\ currentUser' = Null
           /\ authState' = Null
           /\ published' = <<Null>>
           /\ \A x \in Subs : delivered'[x] = IF x \in subscribed THEN <<Null>> ELSE <<>>

UserNotFound(e) == "user-not-found"

NotFoundOrInvalid(e) == IF WellFormed(e) THEN "user-not-found" ELSE "invalid-email"

\* C10 as stated: after deleteAccount a sign-in with the deleted account's
\* former credentials yields user-not-found
C10_DeletedAccountIsNotFound == [][DeleteAccountStep(UserNotFound)]_vars

\* C10 amended: as stated, except that the sign-in with the former
\* credentials yields user-not-found when the former email is well-formed and
\* invalid-email when it is not (changeEmail accepts a malformed address, and
\* the format check of signIn runs before the lookup)
C10_DeleteAccountRemovesTheAccount == [][DeleteAccountStep(NotFoundOrInvalid)]_vars

\* C10 witness: an account was deleted by its session, seen by an observer,
\* while another account stays in the directory
C10_Witness ==
  /\ ret.op = "deleteAccount"
  /\ ret.res = "ok"
  /\ Len(users) > 0
  /\ ret.uid \notin Uids(users)
  /\ \E x \in subscribed : delivered[x] = <<Null>>

\* C11: after a successful deleteUser(uid) every lookup of that account
\* misses: a sign-in with its former credentials yields user-not-found, no
\* account with that uid is left for getUidByEmail to return, neither its
\* idToken nor its refreshToken resolves, and every other account is untouched
C11_DeletedUserIsGone ==
  [][ret'.op = "backend.deleteUser" /\ ret'.res = "ok" =>
       LET gone == registeredUsers[FindByUid(registeredUsers, ret'.arg[1])] IN
         /\ Backend_signInOutcome(registeredUsers', gone.email, gone.password)
              = "user-not-found"
         /\ \A k \in 1..Len(registeredUsers') : registeredUsers'[k].uid # gone.uid
         /\ FindByIdToken(registeredUsers', gone.idToken) = 0
         /\ FindByRefreshToken(registeredUsers', gone.refreshToken) = 0
         /\ Len(registeredUsers') = Len(registeredUsers) - 1
         /\ \A i \in 1..Len(registeredUsers) :
              registeredUsers[i].uid # gone.uid =>
                \E k \in 1..Len(registeredUsers') :
                  registeredUsers'[k] = registeredUsers[i]]_vars

\* the deliveries of one event: to every observer subscribed to its kind
Deliveries(event) ==
  [s \in BackObservers |->
     IF <<event.kind, s>> \in backSubscribed THEN <<event>> ELSE <<>>]

\* C12: a successful signUpWithEmailPassword publishes exactly one created
\* event with the returned uid, at a point where a lookup finds the account; a
\* successful deleteUser publishes exactly one deleted event with the deleted
\* uid, at a point where a lookup no longer finds it; every observer subscribed
\* to that stream, and no other, gets it; any other call publishes nothing
C12_EventsFollowTheMutation ==
  [][IF ret'.op = "backend.signUp" /\ ret'.res = "ok"
       THEN /\ backPublished' = <<[kind |-> "created", uid |-> ret'.uid,
                                   found |-> TRUE]>>
            /\ FindByUid(registeredUsers', ret'.uid) # 0
            /\ backEvents' = Deliveries(backPublished'[1])
     ELSE IF ret'.op = "backend.deleteUser" /\ ret'.res = "ok"
       THEN /\ backPublished' = <<[kind |-> "deleted", uid |-> ret'.arg[1],
                                   found |-> FALSE]>>
            /\ FindByUid(registeredUsers', ret'.arg[1]) = 0
            /\ backEvents' = Deliveries(backPublished'[1])
     ELSE /\ backPublished' = <<>>
          /\ \A s \in BackObservers : backEvents'[s] = <<>>]_vars

\* C12 witness: an observer of onUserDeleted$ got the event of a deletion
\* while another account is still registered
C12_Witness ==
  /\ ret.op = "backend.deleteUser"
  /\ ret.res = "ok"
  /\ Len(registeredUsers) > 0
  /\ \E x \in BackSubs :
       backEvents[x] = <<[kind |-> "deleted", uid |-> ret.arg[1], found |-> FALSE]>>

C14_RefreshKeepsTheRefreshToken ==
  [][/\ ret'.op = "backend.signInWithRefreshToken"
        /\ FindByRefreshToken(registeredUsers, ret'.arg[1]) # 0 =>
          LET i == FindByRefreshToken(registeredUsers, ret'.arg[1]) IN
            /\ ret'.res = "ok"
            /\ ret'.uid = registeredUsers[i].uid
            /\ ret'.token[1] >= nextUuid
            /\ ret'.token[1] < nextUuid'
            /\ \A x \in issued : x[1] # ret'.token[1]
            /\ FindByIdToken(registeredUsers', ret'.token[1]) # 0
            /\ registeredUsers'[FindByIdToken(registeredUsers', ret'.token[1])].uid
                 = ret'.uid
            /\ FindByRefreshToken(registeredUsers', ret'.arg[1]) = i
     /\ \A i \in 1..Len(registeredUsers) :
          \/ /\ ret'.op = "backend.deleteUser"
             /\ ret'.res = "ok"
             /\ ret'.arg[1] = registeredUsers[i].uid
          \/ \E k \in 1..Len(registeredUsers') :
               /\ registeredUsers'[k].uid = registeredUsers[i].uid
               /\ registeredUsers'[k].refreshToken = registeredUsers[i].refreshToken]_vars

\* C14 witness: a second refresh with the same refresh token, after the
\* account's password was changed
C14_Witness ==
  /\ ret.op = "backend.signInWithRefreshToken"
  /\ ret.res = "ok"
  /\ \E x \in issued :
       /\ x[3] = ret.uid
       /\ x[2] = ret.arg[1]
       /\ x[1] \notin {ret.token[1], ret.uid + 1}
  /\ \E k \in 1..Len(registeredUsers) :
       registeredUsers[k].uid = ret.uid /\ registeredUsers[k].password = "pw2"

\* C15 as stated: an idToken that a sign-in or a refresh returned resolves to
\* its account for as long as the account exists
C15_IdTokensAreNotSuperseded ==
  \A x \in issued :
    (\E k \in 1..Len(registeredUsers) : registeredUsers[k].uid = x[3]) =>
      /\ FindByIdToken(registeredUsers, x[1]) # 0
      /\ registeredUsers[FindByIdToken(registeredUsers, x[1])].uid = x[3]

\* C15 amended: an account holds one idToken, and a successful
\* signInWithRefreshToken supersedes it.  After the refresh the idToken the
\* account held before no longer resolves and the new one resolves to the
\* account; the other accounts keep theirs.  So an idToken returned earlier
\* resolves, while its account exists, exactly if it is the one the account
\* holds now.
C15_RefreshSupersedesTheIdToken ==
  [][/\ ret'.op = "backend.signInWithRefreshToken" /\ ret'.res = "ok" =>
          \E i \in 1..Len(registeredUsers) :
            /\ registeredUsers[i].uid = ret'.uid
            /\ FindByIdToken(registeredUsers', registeredUsers[i].idToken) = 0
            /\ FindByIdToken(registeredUsers', ret'.token[1]) = i
            /\ Len(registeredUsers') = Len(registeredUsers)
            /\ \A k \in 1..Len(registeredUsers) :
                 k # i => registeredUsers'[k] = registeredUsers[k]
     /\ \A x \in issued' : \A k \in 1..Len(registeredUsers') :
          registeredUsers'[k].uid = x[3] =>
            (FindByIdToken(registeredUsers', x[1]) # 0
               <=> registeredUsers'[k].idToken = x[1])]_vars

\* C15 witness: getUidFromIdToken rejects an idToken that an earlier call
\* returned for an account that still exists
C15_Witness ==
  /\ ret.op = "backend.getUidFromIdToken"
  /\ ret.res = "unknown"
  /\ \E x \in issued :
       /\ x[1] = ret.arg[1]
       /\ \E k \in 1..Len(registeredUsers) : registeredUsers[k].uid = x[3]

\* C16: getUidFromIdToken(t) succeeds exactly when some registered account
\* holds t as its idToken, and returns the uid of that account;
\* signInWithRefreshToken(r) succeeds exactly when some registered account has
\* r as its refreshToken; otherwise both return an error, and a
\* getUidFromIdToken or a failed signInWithRefreshToken changes no account and
\* draws no token
C16_TokensResolveExactlyWhenHeld ==
  [][/\ ret'.op = "backend.getUidFromIdToken" =>
          /\ ret'.res = IF \E k \in 1..Len(registeredUsers) :
                             registeredUsers[k].idToken = ret'.arg[1]
                          THEN "ok" ELSE "unknown"
          /\ \A k \in 1..Len(registeredUsers) :
               registeredUsers[k].idToken = ret'.arg[1] =>
                 ret'.uid = registeredUsers[k].uid
          /\ UNCHANGED <<registeredUsers, nextUuid>>
     /\ ret'.op = "backend.signInWithRefreshToken" =>
          /\ ret'.res = IF \E k \in 1..Len(registeredUsers) :
                             registeredUsers[k].refreshToken = ret'.arg[1]
                          THEN "ok" ELSE "unknown"
          /\ \A k \in 1..Len(registeredUsers) :
               registeredUsers[k].refreshToken = ret'.arg[1] =>
                 ret'.uid = registeredUsers[k].uid
          /\ ret'.res = "unknown" => UNCHANGED <<registeredUsers, nextUuid>>]_vars

\* C16 witness: the refresh token of a registered account, presented as an
\* idToken, is rejected while a second account is registered
C16_Witness ==
  /\ ret.op = "backend.getUidFromIdToken"
  /\ ret.res = "unknown"
  /\ Len(registeredUsers) = 2
  /\ \E k \in 1..Len(registeredUsers) :
       registeredUsers[k].refreshToken = ret.arg[1]

\* a step that is a call of the method op, and not the passing of time
CallOf(op) == ret'.op = op /\ now' = now

\* the time of the latest successful triggerResetPasswordFlow(e): the stamp
\* the tracker holds for e, which only a successful call writes (C19)
Stamped(e) == e \in DOMAIN rateLimitTracker

\* C17: if a triggerResetPasswordFlow(e) succeeded at t1 and an account still
\* owns e, a later call for e at t2 returns rate-limit-exceeded when
\* t2 - t1 < 60000 and succeeds when t2 - t1 >= 60000; the cooldown of another
\* email has no part in it: what a call for an email without a stamp answers
\* is decided by the clock and the directory alone, and a call leaves the
\* stamps of the other emails as they are
C17_CooldownIsPerEmail ==
  [][CallOf("triggerResetPasswordFlow") =>
       LET e == ret'.arg[1] IN
         /\ Stamped(e) /\ (\E i \in 1..Len(users) : users[i].email = e) =>
              ret'.res = IF now - rateLimitTracker[e] < 60000
                           THEN "rate-limit-exceeded" ELSE "ok"
         /\ ~Stamped(e) =>
              ret'.res = IF now < 60000 THEN "rate-limit-exceeded"
                         ELSE IF \E i \in 1..Len(users) : users[i].email = e
                           THEN "ok"
                         ELSE "email-not-in-database"
         /\ \A o \in Emails \ {e} :
              /\ Stamped(o) <=> o \in DOMAIN rateLimitTracker'
              /\ Stamped(o) => rateLimitTracker'[o] = rateLimitTracker[o]]_vars

\* C17 witness: a call for e succeeded exactly 60000 ms after the earlier
\* success for e, whose token is still in the ledger
C17_Witness ==
  /\ ret.op = "triggerResetPasswordFlow"
  /\ ret.res = "ok"
  /\ rateLimitTracker[ret.arg[1]] = now
  /\ \E i \in 1..Len(passwordResetTokens) :
       /\ passwordResetTokens[i].email = ret.arg[1]
       /\ passwordResetTokens[i].expiresAt = now - 60000 + 3600000

\* C18: for an email e that no account owns, triggerResetPasswordFlow(e)
\* returns rate-limit-exceeded when e has a request stamped within the last
\* 60000 ms and email-not-in-database when it has none
C18_RateLimitBeforeExistence ==
  [][CallOf("triggerResetPasswordFlow")
       /\ (\A i \in 1..Len(users) : users[i].email # ret'.arg[1]) =>
         ret'.res = IF /\ Stamped(ret'.arg[1])
                       /\ now - rateLimitTracker[ret'.arg[1]] < 60000
                      THEN "rate-limit-exceeded"
                      ELSE "email-not-in-database"]_vars

\* C19: a successful triggerResetPasswordFlow(e) at time t appends exactly one
\* token, of a value not in the ledger, bound to e with expiresAt = t + 3600000,
\* sets the stamp of e to t and changes nothing else; a rejected call changes
\* neither the ledger nor any stamp nor anything else
C19_OnlySuccessMintsAndStamps ==
  [][CallOf("triggerResetPasswordFlow") =>
       /\ UNCHANGED <<users, currentUser, authState, idTokens>>
       /\ published' = <<>>
       /\ ret'.res \in {"ok", "rate-limit-exceeded", "email-not-in-database"}
       /\ IF ret'.res = "ok"
            THEN /\ Len(passwordResetTokens') = Len(passwordResetTokens) + 1
                 /\ \A i \in 1..Len(passwordResetTokens) :
                      /\ passwordResetTokens'[i] = passwordResetTokens[i]
                      /\ passwordResetTokens[i].token
                           # passwordResetTokens'[Len(passwordResetTokens')].token
                 /\ passwordResetTokens'[Len(passwordResetTokens')].email
                      = ret'.arg[1]
                 /\ passwordResetTokens'[Len(passwordResetTokens')].expiresAt
                      = now + 3600000
                 /\ DOMAIN rateLimitTracker'
                      = DOMAIN rateLimitTracker \cup {ret'.arg[1]}
                 /\ \A e \in DOMAIN rateLimitTracker' :
                      rateLimitTracker'[e] =
                        IF e = ret'.arg[1] THEN now ELSE rateLimitTracker[e]
            ELSE UNCHANGED <<passwordResetTokens, rateLimitTracker>>]_vars

\* C19 witness: a call inside the cooldown was rejected and the stamp still is
\* the time of the success before it
C19_Witness ==
  /\ ret.op = "triggerResetPasswordFlow"
  /\ ret.res = "rate-limit-exceeded"
  /\ Stamped(ret.arg[1])
  /\ rateLimitTracker[ret.arg[1]] < now
  /\ Len(passwordResetTokens) = 1

\* C20: requestChangePassword with a value that is not in the ledger returns
\* token-not-found and changes nothing; with a token whose expiresAt is earlier
\* than the clock it returns token-expired, removes that token only and changes
\* no password; a token used not later than its expiresAt is accepted.  No
\* step puts a removed value back: what enters the ledger is a value not
\* minted before, so the value of an expired token is not found afterwards.
C20_ExpiredTokenIsRemoved ==
  [][/\ CallOf("requestChangePassword") =>
          LET v == ret'.arg[1]
              held == {i \in 1..Len(passwordResetTokens) :
                         passwordResetTokens[i].token = v}
              gone(r) == r.token # v IN
            IF held = {}
              THEN /\ ret'.res = "token-not-found"
                   /\ UNCHANGED <<users, passwordResetTokens, rateLimitTracker>>
            ELSE IF \E i \in held : passwordResetTokens[i].expiresAt < now
              THEN /\ ret'.res = "token-expired"
                   /\ passwordResetTokens' = SelectSeq(passwordResetTokens, gone)
                   /\ UNCHANGED <<users, rateLimitTracker>>
            ELSE /\ ret'.res = "ok"
                 /\ passwordResetTokens' = SelectSeq(passwordResetTokens, gone)
     /\ nextResetToken' >= nextResetToken
     /\ \A k \in 1..Len(passwordResetTokens') :
          \/ \E i \in 1..Len(passwordResetTokens) :
               passwordResetTokens[i] = passwordResetTokens'[k]
          \/ /\ passwordResetTokens'[k].token[2] >= nextResetToken
             /\ passwordResetTokens'[k].token[2] < nextResetToken']_vars

\* C20 witness: a token was rejected as expired one millisecond after its
\* expiresAt and is no longer in the ledger, and the account it was minted
\* for has the password it had
C20_Witness ==
  /\ ret.op = "requestChangePassword"
  /\ ret.res = "token-expired"
  /\ now = 60000 + 3600000 + 1
  /\ \A i \in 1..Len(passwordResetTokens) :
       passwordResetTokens[i].token # ret.arg[1]
  /\ \E i \in 1..Len(users) : users[i].password = "pw1" /\ ret.arg[2] = "pw2"

\* the values of the tokens in the ledger
LedgerValues(tokens) == {tokens[i].token : i \in 1..Len(tokens)}

\* C21: a reset token is single use.  A successful requestChangePassword(v, .)
\* takes v out of the ledger; no step puts a value into the ledger that was
\* minted before; and a requestChangePassword with a value that was minted
\* and is no longer in the ledger returns token-not-found and changes no
\* password.
C21_ResetTokenIsSingleUse ==
  [][/\ CallOf("requestChangePassword") /\ ret'.res = "ok" =>
          /\ ret'.arg[1] \in LedgerValues(passwordResetTokens)
          /\ ret'.arg[1] \notin LedgerValues(passwordResetTokens')
     /\ CallOf("requestChangePassword")
          /\ ret'.arg[1][2] \in 1..(nextResetToken - 1)
          /\ ret'.arg[1] \notin LedgerValues(passwordResetTokens) =>
            /\ ret'.res = "token-not-found"
            /\ UNCHANGED <<users, passwordResetTokens>>
     /\ \A v \in LedgerValues(passwordResetTokens')
                  \ LedgerValues(passwordResetTokens) :
          v[2] \notin 1..(nextResetToken - 1)
     /\ nextResetToken' >= nextResetToken]_vars

\* C21 witness: the only token minted so far has set a password, and its
\* second use, long before any token can expire, was answered
\* token-not-found and left that password
C21_Witness ==
  /\ ret.op = "requestChangePassword"
  /\ ret.res = "token-not-found"
  /\ ret.arg = <<ResetToken(1), "pw1">>
  /\ nextResetToken = 2
  /\ now < 3600000
  /\ \E i \in 1..Len(users) : users[i].password = "pw2"

\* C22: requestChangePassword with an unexpired token, minted for an account
\* that has been deleted since, returns success, takes the token out of the
\* ledger and changes no account of the directory, not even one created under
\* the same email after the deletion
C22_VanishedAccountIsNoOp ==
  [][CallOf("requestChangePassword") =>
       \A i \in 1..Len(passwordResetTokens) :
         (/\ passwordResetTokens[i].token = ret'.arg[1]
          /\ passwordResetTokens[i].expiresAt >= now
          /\ mintedFor[ret'.arg[1][2]] \notin Uids(users))
         => /\ ret'.res = "ok"
            /\ ret'.arg[1] \notin LedgerValues(passwordResetTokens')
            /\ users' = users]_vars


\* what a successful changeEmail(b) does apart from what later sign-ins
\* answer: the account of the session, held under email a, is held under b
\* with its uid and password, a is available and b is not, the session stays
\* SignedIn as the same uid and nothing is published
ChangeEmailStep(answerNew(_), answerOld(_)) ==
  (ret'.op = "changeEmail" /\ ret'.res = "ok") =>
    /\ authState \notin SignedOutValues
    /\ \E i \in 1..Len(users) : users[i].uid = authState
    /\ \A i \in 1..Len(users) :
         IF users[i].uid = authState
           THEN /\ \E k \in 1..Len(users') :
                     users'[k] = FakeUser(authState, ret'.arg[1], users[i].password)
                /\ \A k \in 1..Len(users') :
                     users'[k].email = ret'.arg[1] => users'[k].uid = authState
                /\ signInOutcome(users', ret'.arg[1], users[i].password)
                     = answerNew(ret'.arg[1])
                /\ signInOutcome(users', users[i].email, users[i].password)
                     = answerOld(users[i].email)
                /\ \A k \in 1..Len(users') : users'[k].email # users[i].email
           ELSE \E k \in 1..Len(users') : users'[k] = users[i]
    /\ Len(users') = Len(users)
    /\ UNCHANGED <<currentUser, authState, idTokens>>
    /\ NothingPublished

SignInSucceeds(e) == "ok"

OkOrInvalid(e) == IF WellFormed(e) THEN "ok" ELSE "invalid-email"

\* C23 as stated: a successful changeEmail(b) by the session of the account
\* under a moves the account to b with its uid and password; afterwards
\* signIn(b, pw) succeeds with the same uid, signIn(a, pw) yields
\* user-not-found, a is available, b is not, and the session stays SignedIn
C23_ChangeEmailMovesTheCredentials ==
  [][ChangeEmailStep(SignInSucceeds, UserNotFound)]_vars

\* C23 amended: as stated, except that a later sign-in under an address that
\* is not well-formed yields invalid-email, for the new address as for the
\* old one (changeEmail does not check the format of the new address, and the
\* format check of signIn runs before the lookup)
C23_ChangeEmailMovesTheAccount ==
  [][ChangeEmailStep(OkOrInvalid, NotFoundOrInvalid)]_vars

\* C23 witness: the session of the account created under EmailA has moved it
\* to EmailB, and another account is in the directory
C23_Witness ==
  /\ ret.op = "changeEmail"
  /\ ret.res = "ok"
  /\ ret.arg = <<EmailB>>
  /\ authState \notin SignedOutValues
  /\ \E i \in 1..Len(users) : users[i] = FakeUser(authState, EmailB, "pw1")
  /\ \A i \in 1..Len(users) : users[i].email # EmailA
  /\ Len(users) > 1


\* C24: changeEmail(x) on the session facade fails and leaves the directory
\* and the session unchanged when the state is not SignedIn; when it is
\* SignedIn and x is owned by any account, the caller's own included, it
\* returns email-not-available and changes nothing
C24_ChangeEmailFailuresChangeNothing ==
  [][ret'.op = "changeEmail" =>
       /\ authState \in SignedOutValues =>
            /\ ret'.res = "unknown"
            /\ UNCHANGED <<users, nextUid, currentUser, authState, idTokens>>
            /\ NothingPublished
       /\ (/\ authState \notin SignedOutValues
           /\ \E i \in 1..Len(users) : users[i].email = ret'.arg[1]) =>
            /\ ret'.res = "email-not-available"
            /\ UNCHANGED <<users, nextUid, currentUser, authState, idTokens>>
            /\ NothingPublished]_vars

\* C24 witness: a signed-in caller asked for its own current email and was
\* refused, with another account in the directory
C24_Witness ==
  /\ ret.op = "changeEmail"
  /\ ret.res = "email-not-available"
  /\ authState \notin SignedOutValues
  /\ \E i \in 1..Len(users) :
       users[i].email = ret.arg[1] /\ users[i].uid = authState
  /\ Len(users) > 1


\* C25: isEmailAvailable(e) answers false exactly when an account of the
\* directory is held under e, and changes no state; an email that signUp or
\* addTestUser has put in the directory stays owned through every operation
\* except a successful deleteAccount or changeEmail of the session whose uid
\* the account under that email carries
C25_AvailabilityFollowsTheDirectory ==
  [][/\ ret'.op = "isEmailAvailable" =>
          /\ ret'.res = IF \E i \in 1..Len(users) : users[i].email = ret'.arg[1]
                          THEN "false" ELSE "true"
          /\ UNCHANGED <<users, nextUid, currentUser, authState, idTokens, subscribed>>
          /\ NothingPublished
     /\ (ret'.op \in {"signUp", "addTestUser"} /\ ret'.res = "ok") =>
          \E k \in 1..Len(users') :
            users'[k].email = ret'.arg[1] /\ users'[k].uid = ret'.uid
     /\ \A i \in 1..Len(users) :
          (\A k \in 1..Len(users') : users'[k].email # users[i].email) =>
            /\ ret'.op \in {"deleteAccount", "changeEmail"}
            /\ ret'.res = "ok"
            /\ users[i].uid = authState]_vars

\* C25 witness: a signed-in caller asks for its own email, which addTestUser
\* has put in the directory, and is told that it is taken, while the other
\* email has been freed
C25_Witness ==
  /\ ret.op = "isEmailAvailable"
  /\ ret.res = "false"
  /\ authState \notin SignedOutValues
  /\ \E i \in 1..Len(users) :
       /\ users[i].email = ret.arg[1]
       /\ users[i].uid = authState
       /\ users[i].password = "pw2"
  /\ Len(users) = 1
  /\ nextUid > 2


\* C26: Unknown is the state of construction only: no operation publishes
\* undefined, every publication leaves a state other than Unknown, and once
\* the state is not Unknown no step returns to it and no observer is handed
\* undefined again
C26_UnknownIsNeverReentered ==
  [][/\ \A k \in 1..Len(published') : published'[k] # Undefined
     /\ published' # <<>> => authState' # Undefined
     /\ (ret'.op \in {"signOut", "deleteAccount", "signIn"}
           /\ ret'.res = "ok") => published' # <<>>
     /\ authState # Undefined =>
          /\ authState' # Undefined
          /\ \A s \in Subs : \A k \in 1..Len(delivered'[s]) :
               delivered'[s][k] # Undefined]_vars

\* C26 witness: the directory is empty and nobody is signed in, as at
\* construction, after a deleteAccount: the state is SignedOut, and an
\* observer was handed null
C26_Witness ==
  /\ ret.op = "deleteAccount"
  /\ ret.res = "ok"
  /\ users = <<>>
  /\ idTokens = <<>>
  /\ currentUser = Null
  /\ authState = Null
  /\ \E s \in subscribed : delivered[s] = <<Null>>


\* C27 as stated: after the initial Unknown the published values alternate
\* strictly: the first is null, a signed-in value follows only a null and a
\* null follows only a signed-in value
C27_PublishedValuesAlternate ==
  [][published' # <<>> =>
       /\ Len(published') = 1
       /\ authState = Undefined => published'[1] = Null
       /\ authState = Null => published'[1] \notin SignedOutValues
       /\ authState \notin SignedOutValues => published'[1] = Null]_vars

\* C27 amended: every step publishes nothing and keeps the state, or
\* publishes one value that becomes the state; a successful signIn publishes
\* the account's uid whatever the state was (Unknown, SignedOut or SignedIn),
\* every signOut publishes null whatever the state was, a deleteAccount
\* publishes null when the state is SignedIn, and nothing else publishes
C27_EveryTransitionIsPublished ==
  [][/\ published' = <<>> => authState' = authState
     /\ published' # <<>> =>
          /\ published' = <<authState'>>
          /\ \/ /\ ret'.op = "signIn"
                /\ ret'.res = "ok"
                /\ \E i \in 1..Len(users) :
                     users[i].email = ret'.arg[1] /\ users[i].uid = authState'
             \/ /\ ret'.op = "signOut"
                /\ authState' = Null
             \/ /\ ret'.op = "deleteAccount"
                /\ ret'.res = "ok"
                /\ authState \notin SignedOutValues
                /\ authState' = Null
     /\ (ret'.op = "signIn" /\ ret'.res = "ok") => published' # <<>>
     /\ ret'.op = "signOut" => published' # <<>>
     /\ (ret'.op = "deleteAccount" /\ ret'.res = "ok") => published' # <<>>]_vars

\* C27 witness: a sign-in was published while the session was SignedIn as
\* another account, whose token is still in the store
C27_Witness ==
  /\ ret.op = "signIn"
  /\ ret.res = "ok"
  /\ published = <<authState>>
  /\ authState = 2
  /\ DOMAIN idTokens = {1, 2}


\* C28: signUp, isEmailAvailable, triggerResetPasswordFlow and
\* requestChangePassword, whatever they return, leave the signed-in identity
\* and the token store as they were and publish nothing on authState$
C28_DirectoryAndResetLeaveTheSession ==
  [][(\E op \in {"signUp", "isEmailAvailable", "triggerResetPasswordFlow",
                  "requestChangePassword"} : CallOf(op)) =>
       /\ UNCHANGED <<currentUser, authState, idTokens, subscribed>>
       /\ NothingPublished]_vars

\* C28 witness: the password of the signed-in account was reset, and its
\* session and its token are still there
C28_Witness ==
  /\ ret.op = "requestChangePassword"
  /\ ret.res = "ok"
  /\ authState \notin SignedOutValues
  /\ currentUser = authState
  /\ authState \in DOMAIN idTokens
  /\ \E i \in 1..Len(users) :
       users[i].uid = authState /\ users[i].password = "pw2"


\* C29: the value authState$ holds is undefined until the first publication
\* and the value published last from then on; an observer receives that value,
\* and nothing else, in the step in which it subscribes, then, while it stays
\* subscribed, the values each step publishes, in the order of publication;
\* an observer that is not subscribed receives nothing
C29_AuthStateReplaysTheCurrentValue ==
  [][/\ authState' = IF published' = <<>> THEN authState
                      ELSE published'[Len(published')]
     /\ \A s \in Subs :
          delivered'[s] = IF s \in subscribed' \ subscribed THEN <<authState>>
                          ELSE IF s \in subscribed' \cap subscribed THEN published'
                          ELSE <<>>]_vars

\* C29 witness: an observer subscribes while the session is SignedIn as the
\* second account, after its token was minted, and is handed that uid at once
C29_Witness ==
  /\ ret.op = "subscribe"
  /\ authState = 2
  /\ authState \in DOMAIN idTokens
  /\ published = <<>>
  /\ \E s \in subscribed : delivered[s] = <<2>>


\* the events of a publication that belong to the streams an observer is
\* subscribed to, in the order of publication
EventsFor(s, events, subscriptions) ==
  LET mine(e) == <<e.kind, s>> \in subscriptions IN SelectSeq(events, mine)

\* C30: onUserCreated$ and onUserDeleted$ do not replay: the step in which an
\* observer subscribes hands it nothing, whatever was published before; in
\* every step an observer is handed the events published in that step on the
\* streams it was subscribed to when the step began, each once, and nothing
\* else, so that an observer that has unsubscribed is handed no later event
C30_EventStreamsDoNotReplay ==
  [][/\ \A s \in BackObservers :
          backEvents'[s] = EventsFor(s, backPublished', backSubscribed)
     /\ ret'.op = "backend.subscribe" =>
          /\ backPublished' = <<>>
          /\ backEvents'[ret'.arg[2]] = <<>>
     /\ ret'.op = "backend.unsubscribe" =>
          /\ <<ret'.arg[1], ret'.arg[2]>> \notin backSubscribed'
          /\ backEvents'[ret'.arg[2]] = <<>>]_vars

\* C30 witness: an observer subscribes to onUserCreated$ after two accounts
\* were created and one of them deleted, and is handed nothing
C30_Witness ==
  /\ ret.op = "backend.subscribe"
  /\ ret.arg[1] = "created"
  /\ Len(registeredUsers) = 1
  /\ nextUuid > 6
  /\ <<"created", ret.arg[2]>> \in backSubscribed
  /\ backEvents[ret.arg[2]] = <<>>


\* C31: changeEmail, changePassword and deleteUser of the administrative
\* facade, called with a uid no registered account has, return an error,
\* leave every account as it was and publish no event; a successful
\* deleteUser leaves no account with that uid, so that a second deleteUser of
\* it is such a call
C31_UnknownUidChangesNothing ==
  [][/\ (/\ ret'.op \in {"backend.changeEmail", "backend.changePassword",
                          "backend.deleteUser"}
         /\ \A i \in 1..Len(registeredUsers) :
              registeredUsers[i].uid # ret'.arg[1]) =>
          /\ ret'.res = "unknown"
          /\ registeredUsers' = registeredUsers
          /\ backPublished' = <<>>
     /\ (ret'.op = "backend.deleteUser" /\ ret'.res = "ok") =>
          \A i \in 1..Len(registeredUsers') :
            registeredUsers'[i].uid # ret'.arg[1]]_vars

\* C31 witness: deleteUser was refused for the uid of an account that had
\* signed in and was deleted since, while another account is registered
C31_Witness ==
  /\ ret.op = "backend.deleteUser"
  /\ ret.res = "unknown"
  /\ \E x \in issued : x[3] = ret.arg[1]
  /\ Len(registeredUsers) > 0


\* C32: after a successful changePassword(uid, newPw) on the administrative
\* facade a sign-in with the account's email and newPw succeeds with that uid,
\* a sign-in with the previous password yields wrong-password, and the
\* account's uid, email, idToken and refreshToken are as before
C32_ChangedPasswordSignsIn ==
  [][(ret'.op = "backend.changePassword" /\ ret'.res = "ok") =>
       LET old == registeredUsers[FindByUid(registeredUsers, ret'.arg[1])]
           new == registeredUsers'[FindByUid(registeredUsers', ret'.arg[1])] IN
         /\ new = [old EXCEPT !.password = ret'.arg[2]]
         /\ Backend_signInOutcome(registeredUsers', old.email, ret'.arg[2]) = "ok"
         /\ registeredUsers'[FindByEmail(registeredUsers', old.email)].uid = old.uid
         /\ old.password # ret'.arg[2] =>
              Backend_signInOutcome(registeredUsers', old.email, old.password)
                = "wrong-password"]_vars


\* C33: with an observer whose handler raises among the subscribers, a
\* signUpWithEmailPassword still registers the account and succeeds, a
\* deleteUser of a registered uid still removes the account and succeeds, and
\* every observer subscribed to the stream of the event is handed it
C33_RaisingObserverIsIsolated ==
  [][/\ ret'.op = "backend.signUp" =>
          /\ ret'.res = "ok"
          /\ Len(registeredUsers') = Len(registeredUsers) + 1
          /\ \E i \in 1..Len(registeredUsers') : registeredUsers'[i].uid = ret'.uid
          /\ \A s \in BackObservers :
               <<"created", s>> \in backSubscribed =>
                 backEvents'[s] = <<[kind |-> "created", uid |-> ret'.uid,
                                    found |-> TRUE]>>
     /\ (/\ ret'.op = "backend.deleteUser"
         /\ \E i \in 1..Len(registeredUsers) :
              registeredUsers[i].uid = ret'.arg[1]) =>
          /\ ret'.res = "ok"
          /\ Len(registeredUsers') = Len(registeredUsers) - 1
          /\ \A i \in 1..Len(registeredUsers') :
               registeredUsers'[i].uid # ret'.arg[1]
          /\ \A s \in BackObservers :
               <<"deleted", s>> \in backSubscribed =>
                 backEvents'[s] = <<[kind |-> "deleted", uid |-> ret'.arg[1],
                                    found |-> FALSE]>>]_vars

\* C33 witness: a deleteUser succeeded while an observer whose handler raises
\* and another observer were subscribed to onUserDeleted$: the handler raised,
\* and the other observer has the event
C33_Witness ==
  /\ ret.op = "backend.deleteUser"
  /\ ret.res = "ok"
  /\ backUnhandled # {}
  /\ \E s \in BackSubs :
       backEvents[s] = <<[kind |-> "deleted", uid |-> ret.arg[1], found |-> FALSE]>>


\* C34: changeEmail always completes with a Result, under every interleaving:
\* neither part of it throws, and the part after the await changes no account
\* when the session that made the call has ended meanwhile
C34_ChangeEmailAlwaysReturnsAResult ==
  [][ret'.op = "changeEmail" =>
       /\ ret'.res \in {"await", "ok", "unknown", "email-not-available"}
       /\ currentUser = Null => users' = users]_vars


\* C35: triggerResetPasswordFlow(e), for an email e that an account owns and
\* for which no request has succeeded yet, is not answered
\* rate-limit-exceeded, whatever the clock shows
C35_FirstRequestIsNeverRateLimited ==
  [][(/\ CallOf("triggerResetPasswordFlow")
      /\ \E i \in 1..Len(users) : users[i].email = ret'.arg[1]
      /\ ~Stamped(ret'.arg[1])) =>
       ret'.res # "rate-limit-exceeded"]_vars


\* what a successful requestChangePassword with a token minted for e does
\* while the account it was minted for still owns e, apart from what a later
\* sign-in with the new password answers: the account has the new password
\* and its uid, a sign-in with a previous password that differs from the new
\* one is refused, and every other account is as it was
RequestChangePasswordStep(answerNew(_), answerOld(_)) ==
  (CallOf("requestChangePassword") /\ ret'.res = "ok") =>
    \A i \in 1..Len(users) :
      (/\ \E k \in 1..Len(passwordResetTokens) :
            /\ passwordResetTokens[k].token = ret'.arg[1]
            /\ passwordResetTokens[k].email = users[i].email
       /\ mintedFor[ret'.arg[1][2]] = users[i].uid) =>
        /\ \E k \in 1..Len(users') :
             users'[k] = FakeUser(users[i].uid, users[i].email, ret'.arg[2])
        /\ signInOutcome(users', users[i].email, ret'.arg[2])
             = answerNew(users[i].email)
        /\ users[i].password # ret'.arg[2] =>
             signInOutcome(users', users[i].email, users[i].password)
               = answerOld(users[i].email)
        /\ Len(users') = Len(users)
        /\ \A j \in (1..Len(users)) \ {i} :
             \E k \in 1..Len(users') : users'[k] = users[j]

WrongPassword(e) == "wrong-password"

WrongOrInvalid(e) == IF WellFormed(e) THEN "wrong-password" ELSE "invalid-email"

\* C36 as stated: after a successful requestChangePassword with an unexpired
\* token minted for e, while the owning account still owns e, signIn(e,
\* newPassword) succeeds with the account's uid and signIn(e, oldPassword)
\* yields wrong-password; no other account's password changes
C36_ResetPasswordSignsIn ==
  [][RequestChangePasswordStep(SignInSucceeds, WrongPassword)]_vars

\* C36 amended: as stated, except that both sign-ins yield invalid-email when
\* e is not well-formed (signUp and triggerResetPasswordFlow accept a
\* malformed address, and the format check of signIn runs before the lookup)
C36_ResetPasswordChangesTheOwner ==
  [][RequestChangePasswordStep(OkOrInvalid, WrongOrInvalid)]_vars

\* C36 witness: the second account's password was reset with its token while
\* the first account keeps its own
C36_Witness ==
  /\ ret.op = "requestChangePassword"
  /\ ret.res = "ok"
  /\ ret.arg[2] = "pw2"
  /\ mintedFor[ret.arg[1][2]] = 2
  /\ Len(users) = 2
  /\ \E i \in 1..Len(users) :
       users[i].uid = 2 /\ users[i].password = "pw2" /\ WellFormed(users[i].email)
  /\ \E i \in 1..Len(users) : users[i].uid = 1 /\ users[i].password = "pw1"


\* C37: a reset token stays bound to the account it was minted for: when that
\* account has changed its email since the token was minted, a successful
\* requestChangePassword with the token gives the new password to that
\* account, under its new email, and leaves every other account as it was
C37_TokenFollowsTheAccount ==
  [][(CallOf("requestChangePassword") /\ ret'.res = "ok") =>
       \A i \in 1..Len(users) :
         (/\ mintedFor[ret'.arg[1][2]] = users[i].uid
          /\ \E k \in 1..Len(passwordResetTokens) :
               /\ passwordResetTokens[k].token = ret'.arg[1]
               /\ passwordResetTokens[k].email # users[i].email) =>
           /\ \E k \in 1..Len(users') :
                users'[k] = FakeUser(users[i].uid, users[i].email, ret'.arg[2])
           /\ \A j \in (1..Len(users)) \ {i} :
                \E k \in 1..Len(users') : users'[k] = users[j]]_vars


AccountsOf(m, uid) == {i \in 1..Len(m) : m[i].uid = uid}

\* C39: whenever the session is SignedIn(uid), exactly one account of the
\* directory has that uid; hence a successful changeEmail or deleteAccount
\* changes an account of that uid and no other
C39_SignedInUidHasOneAccount ==
  /\ [](authState \notin SignedOutValues =>
          Cardinality(AccountsOf(users, authState)) = 1)
  /\ [][(ret'.op \in {"changeEmail", "deleteAccount"} /\ ret'.res = "ok") =>
          /\ \E i \in AccountsOf(users, authState) :
               \A k \in 1..Len(users') : users'[k] # users[i]
          /\ \A i \in (1..Len(users)) \ AccountsOf(users, authState) :
               \E k \in 1..Len(users') : users'[k] = users[i]]_vars

=============================================================================
